---- MODULE Spec2Model ----
(***************************************************************************)
(* The statement level of tomli's parser (src/tomli/_parser.py): the       *)
(* document tree (NestedDict), the flag trie (Flags), the header namespace *)
(* and the three statement rules that change them.  A document is a        *)
(* sequence of statements; each step of the statement loop of loads()      *)
(* consumes one statement, whose key and value have already been parsed.   *)
(***************************************************************************)
EXTENDS Integers, Sequences, FiniteSets, TLC

\* ------------------------------------------------------------------ bounds
\* Longest document, in statements.
MaxStmts == 4
\* Key parts a statement can use.
KeyParts == {"a", "b"}

\* ------------------------------------------------------------- flag values
FROZEN == 0
EXPLICIT_NEST == 1

\* ------------------------------------------------------------------ values
\* A value is a record [t, v]: t is the Python type, v the content.  A dict's
\* content is a function from key parts to values, a list's a sequence.
EmptyCont == [k \in {} |-> 0]

IntVal(i) == [t |-> "int", v |-> i]
DictVal(d) == [t |-> "dict", v |-> d]
ListVal(l) == [t |-> "list", v |-> l]

\* cont[k] = v on a dict (or on the flag trie).
Put(cont, k, v) == [x \in (DOMAIN cont) \cup {k} |-> IF x = k THEN v ELSE cont[x]]

\* cont.pop(k, None)
Pop(cont, k) == [x \in (DOMAIN cont) \ {k} |-> cont[x]]

\* The values parse_value can hand to a statement: an integer, an inline table
\* with one key and an empty inline array.
Values ==
    { IntVal(1),
      DictVal(Put(EmptyCont, "a", IntVal(1))),
      ListVal(<<>>) }

\* The keys parse_key can hand to a statement: a bare key, or a dotted key of
\* two different parts.
Keys == { <<"a">>, <<"b">>, <<"a", "b">>, <<"b", "a">> }

\* ------------------------------------------------------------------- state
VARIABLES
    out,        \* state.out.dict: the root table
    flags,      \* state.flags._flags: the flag trie
    header,     \* state.header_namespace
    doc,        \* the statements consumed so far (state.src up to state.pos)
    pc,         \* "parsing", "returned" (loads returned state.out.dict) or "raised"
    err,        \* the exception raised: [type, msg, key]
    arg,        \* the call: [fn, mode, text], text the str or the file's content
    src,        \* state.src, a sequence of characters
    pos         \* state.pos, counted from 0

vars == <<out, flags, header, doc, pc, err, arg, src, pos>>

\* A document given as statements has no text.
NoArg == [fn |-> "", mode |-> "", text |-> <<>>]

NoErr == [type |-> "", msg |-> "", key |-> <<>>]

\* ------------------------------------------------------------------- Flags
\* The trie node a missing key gets.
NewNode == [flags |-> {}, recursive_flags |-> {}, nested |-> EmptyCont]

\* unset_all that clears nothing.
UnsetAllNothing(cont, key) == cont

RECURSIVE UnsetAll(_, _)
UnsetAll(cont, key) ==
    IF Len(key) = 1 THEN Pop(cont, key[1])
    ELSE IF key[1] \notin DOMAIN cont THEN cont
    ELSE [cont EXCEPT ![key[1]].nested = UnsetAll(@, Tail(key))]

\* set_for_relative_key that sets the flag at head_key + rel_key alone, not at
\* the paths between head_key and it.
RECURSIVE SetForRelativeKeyLastOnly(_, _, _, _)
SetForRelativeKeyLastOnly(cont, head_key, rel_key, flag) ==
    IF head_key # <<>> THEN
        LET k == head_key[1]
            node == IF k \in DOMAIN cont THEN cont[k] ELSE NewNode
        IN Put(cont, k,
               [node EXCEPT !.nested =
                    SetForRelativeKeyLastOnly(@, Tail(head_key), rel_key, flag)])
    ELSE IF rel_key # <<>> THEN
        LET k == rel_key[1]
            node == IF k \in DOMAIN cont THEN cont[k] ELSE NewNode
            node1 == IF Len(rel_key) = 1
                     THEN [node EXCEPT !.flags = @ \cup {flag}]
                     ELSE node
        IN Put(cont, k,
               [node1 EXCEPT !.nested =
                    SetForRelativeKeyLastOnly(@, <<>>, Tail(rel_key), flag)])
    ELSE cont

RECURSIVE SetForRelativeKey(_, _, _, _)
SetForRelativeKey(cont, head_key, rel_key, flag) ==
    IF head_key # <<>> THEN
        LET k == head_key[1]
            node == IF k \in DOMAIN cont THEN cont[k] ELSE NewNode
        IN Put(cont, k,
               [node EXCEPT !.nested = SetForRelativeKey(@, Tail(head_key), rel_key, flag)])
    ELSE IF rel_key # <<>> THEN
        LET k == rel_key[1]
            node == IF k \in DOMAIN cont
                    THEN [cont[k] EXCEPT !.flags = @ \cup {flag}]
                    ELSE [NewNode EXCEPT !.flags = {flag}]
        IN Put(cont, k,
               [node EXCEPT !.nested = SetForRelativeKey(@, <<>>, Tail(rel_key), flag)])
    ELSE cont

\* set that ignores recursive=True: the flag goes to the node's local flags.
RECURSIVE SetLocalOnly(_, _, _, _)
SetLocalOnly(cont, key, flag, recursive) ==
    LET k == key[1]
        node == IF k \in DOMAIN cont THEN cont[k] ELSE NewNode
    IN IF Len(key) > 1
       THEN Put(cont, k, [node EXCEPT !.nested = SetLocalOnly(@, Tail(key), flag, recursive)])
       ELSE Put(cont, k, [node EXCEPT !.flags = @ \cup {flag}])

RECURSIVE Set(_, _, _, _)
Set(cont, key, flag, recursive) ==
    LET k == key[1]
        node == IF k \in DOMAIN cont THEN cont[k] ELSE NewNode
    IN IF Len(key) > 1
       THEN Put(cont, k, [node EXCEPT !.nested = Set(@, Tail(key), flag, recursive)])
       ELSE IF recursive
            THEN Put(cont, k, [node EXCEPT !.recursive_flags = @ \cup {flag}])
            ELSE Put(cont, k, [node EXCEPT !.flags = @ \cup {flag}])

\* is_ that looks at the recursive flags alone, at the key's own node too.
RECURSIVE IsFromRecursiveOnly(_, _, _)
IsFromRecursiveOnly(cont, key, flag) ==
    IF Len(key) > 1 THEN
        IF key[1] \notin DOMAIN cont THEN FALSE
        ELSE IF flag \in cont[key[1]].recursive_flags THEN TRUE
        ELSE IsFromRecursiveOnly(cont[key[1]].nested, Tail(key), flag)
    ELSE IF key[1] \in DOMAIN cont
         THEN flag \in cont[key[1]].recursive_flags
         ELSE FALSE

RECURSIVE IsFrom(_, _, _)
IsFrom(cont, key, flag) ==
    IF Len(key) > 1 THEN
        IF key[1] \notin DOMAIN cont THEN FALSE
        ELSE IF flag \in cont[key[1]].recursive_flags THEN TRUE
        ELSE IsFrom(cont[key[1]].nested, Tail(key), flag)
    ELSE IF key[1] \in DOMAIN cont
         THEN flag \in cont[key[1]].flags \/ flag \in cont[key[1]].recursive_flags
         ELSE FALSE

Is(cont, key, flag) ==
    IF key = <<>> THEN FALSE ELSE IsFrom(cont, key, flag)

\* -------------------------------------------------------------- NestedDict
\* A reference to a dict of the tree is the way to it from the root: one step
\* [k, i] per key part, i = 0 when cont[k] is the dict itself and i >= 1 when
\* cont[k] is a list and the dict is its i-th element.
Step(k, i) == [k |-> k, i |-> i]

\* get_or_create_nest that puts a new dict in the place of a value that is no
\* dict, where the code raises KeyError.
RECURSIVE GetOrCreateNestOverwriting(_, _, _)
GetOrCreateNestOverwriting(cont, key, access_lists) ==
    IF key = <<>> THEN [exc |-> "", cont |-> cont, ref |-> <<>>]
    ELSE
        LET k == key[1]
            isList == k \in DOMAIN cont /\ cont[k].t = "list" /\ access_lists
            cont1 == IF k \notin DOMAIN cont \/ (~isList /\ cont[k].t # "dict")
                     THEN Put(cont, k, DictVal(EmptyCont))
                     ELSE cont
            child == cont1[k]
        IN IF isList THEN
               IF Len(child.v) = 0
               THEN [exc |-> "IndexError", cont |-> cont1, ref |-> <<>>]
               ELSE LET n == Len(child.v)
                        last == child.v[n]
                    IN IF last.t # "dict"
                       THEN [exc |-> "KeyError", cont |-> cont1, ref |-> <<>>]
                       ELSE LET r == GetOrCreateNestOverwriting(last.v, Tail(key), access_lists)
                            IN [exc |-> r.exc,
                                cont |-> Put(cont1, k,
                                             ListVal([child.v EXCEPT ![n] = DictVal(r.cont)])),
                                ref |-> <<Step(k, n)>> \o r.ref]
           ELSE LET r == GetOrCreateNestOverwriting(child.v, Tail(key), access_lists)
                IN [exc |-> r.exc,
                    cont |-> Put(cont1, k, DictVal(r.cont)),
                    ref |-> <<Step(k, 0)>> \o r.ref]

\* get_or_create_nest that walks on in the first element of a list
\* (cont = cont[0]) where the code takes the last one (cont = cont[-1]).
RECURSIVE GetOrCreateNestFirstElement(_, _, _)
GetOrCreateNestFirstElement(cont, key, access_lists) ==
    IF key = <<>> THEN [exc |-> "", cont |-> cont, ref |-> <<>>]
    ELSE
        LET k == key[1]
            cont1 == IF k \notin DOMAIN cont THEN Put(cont, k, DictVal(EmptyCont)) ELSE cont
            child == cont1[k]
        IN IF access_lists /\ child.t = "list" THEN
               IF Len(child.v) = 0
               THEN [exc |-> "IndexError", cont |-> cont1, ref |-> <<>>]
               ELSE LET first == child.v[1]
                    IN IF first.t # "dict"
                       THEN [exc |-> "KeyError", cont |-> cont1, ref |-> <<>>]
                       ELSE LET r == GetOrCreateNestFirstElement(first.v, Tail(key), access_lists)
                            IN [exc |-> r.exc,
                                cont |-> Put(cont1, k,
                                             ListVal([child.v EXCEPT ![1] = DictVal(r.cont)])),
                                ref |-> <<Step(k, 1)>> \o r.ref]
           ELSE IF child.t # "dict"
           THEN [exc |-> "KeyError", cont |-> cont1, ref |-> <<>>]
           ELSE LET r == GetOrCreateNestFirstElement(child.v, Tail(key), access_lists)
                IN [exc |-> r.exc,
                    cont |-> Put(cont1, k, DictVal(r.cont)),
                    ref |-> <<Step(k, 0)>> \o r.ref]

\* The result of get_or_create_nest: the exception ("" when none), the dict
\* the walk started from as the walk leaves it, and the reference returned.
RECURSIVE GetOrCreateNestFrom(_, _, _)
GetOrCreateNestFrom(cont, key, access_lists) ==
    IF key = <<>> THEN [exc |-> "", cont |-> cont, ref |-> <<>>]
    ELSE
        LET k == key[1]
            cont1 == IF k \notin DOMAIN cont THEN Put(cont, k, DictVal(EmptyCont)) ELSE cont
            child == cont1[k]
        IN IF access_lists /\ child.t = "list" THEN
               IF Len(child.v) = 0
               THEN [exc |-> "IndexError", cont |-> cont1, ref |-> <<>>]
               ELSE LET n == Len(child.v)
                        last == child.v[n]
                    IN IF last.t # "dict"
                       THEN [exc |-> "KeyError", cont |-> cont1, ref |-> <<>>]
                       ELSE LET r == GetOrCreateNestFrom(last.v, Tail(key), access_lists)
                            IN [exc |-> r.exc,
                                cont |-> Put(cont1, k,
                                             ListVal([child.v EXCEPT ![n] = DictVal(r.cont)])),
                                ref |-> <<Step(k, n)>> \o r.ref]
           ELSE IF child.t # "dict"
           THEN [exc |-> "KeyError", cont |-> cont1, ref |-> <<>>]
           ELSE LET r == GetOrCreateNestFrom(child.v, Tail(key), access_lists)
                IN [exc |-> r.exc,
                    cont |-> Put(cont1, k, DictVal(r.cont)),
                    ref |-> <<Step(k, 0)>> \o r.ref]

GetOrCreateNest(dict, key) == GetOrCreateNestFrom(dict, key, TRUE)

\* The dict a reference points to.
RECURSIVE Deref(_, _)
Deref(cont, ref) ==
    IF ref = <<>> THEN cont
    ELSE LET s == ref[1]
         IN IF s.i = 0 THEN Deref(cont[s.k].v, Tail(ref))
            ELSE Deref(cont[s.k].v[s.i].v, Tail(ref))

\* nest = {k: v} in the place of nest[k] = v: the keys the dict held are lost.
RECURSIVE StoreDroppingSiblings(_, _, _, _)
StoreDroppingSiblings(cont, ref, k, v) ==
    IF ref = <<>> THEN Put(EmptyCont, k, v)
    ELSE LET s == ref[1]
         IN IF s.i = 0
            THEN Put(cont, s.k,
                     DictVal(StoreDroppingSiblings(cont[s.k].v, Tail(ref), k, v)))
            ELSE Put(cont, s.k,
                     ListVal([cont[s.k].v EXCEPT ![s.i] =
                                  DictVal(StoreDroppingSiblings(cont[s.k].v[s.i].v,
                                                                Tail(ref), k, v))]))

\* nest[k] = v for the dict nest that ref points to.
RECURSIVE Store(_, _, _, _)
Store(cont, ref, k, v) ==
    IF ref = <<>> THEN Put(cont, k, v)
    ELSE LET s == ref[1]
         IN IF s.i = 0
            THEN Put(cont, s.k, DictVal(Store(cont[s.k].v, Tail(ref), k, v)))
            ELSE Put(cont, s.k,
                     ListVal([cont[s.k].v EXCEPT ![s.i] =
                                  DictVal(Store(cont[s.k].v[s.i].v, Tail(ref), k, v))]))

\* append_nest_to_list that puts a new one-element list in the place of the
\* list it finds.
AppendNestToListAnew(dict, key) ==
    LET r == GetOrCreateNest(dict, SubSeq(key, 1, Len(key) - 1))
        last_key == key[Len(key)]
    IN IF r.exc # "" THEN [exc |-> r.exc, cont |-> r.cont]
       ELSE LET cont == Deref(r.cont, r.ref)
            IN IF last_key \in DOMAIN cont /\ cont[last_key].t # "list"
               THEN [exc |-> "KeyError", cont |-> r.cont]
               ELSE [exc |-> "",
                     cont |-> Store(r.cont, r.ref, last_key,
                                    ListVal(<<DictVal(EmptyCont)>>))]

\* The result of append_nest_to_list: the exception and the root dict after it.
AppendNestToList(dict, key) ==
    LET r == GetOrCreateNest(dict, SubSeq(key, 1, Len(key) - 1))
        last_key == key[Len(key)]
    IN IF r.exc # "" THEN [exc |-> r.exc, cont |-> r.cont]
       ELSE LET cont == Deref(r.cont, r.ref)
            IN IF last_key \in DOMAIN cont THEN
                   LET list_ == cont[last_key]
                   IN IF list_.t # "list"
                      THEN [exc |-> "KeyError", cont |-> r.cont]
                      ELSE [exc |-> "",
                            cont |-> Store(r.cont, r.ref, last_key,
                                           ListVal(Append(list_.v, DictVal(EmptyCont))))]
               ELSE [exc |-> "",
                     cont |-> Store(r.cont, r.ref, last_key,
                                    ListVal(<<DictVal(EmptyCont)>>))]

\* --------------------------------------------------------------- statements
DictStmt(key) == [rule |-> "create_dict", key |-> key, value |-> IntVal(0)]
ListStmt(key) == [rule |-> "create_list", key |-> key, value |-> IntVal(0)]
KVStmt(key, value) == [rule |-> "key_value", key |-> key, value |-> value]

\* raise TOMLDecodeError(msg), the message naming key where the code formats one in.
Raise(msg, key) ==
    /\ pc' = "raised"
    /\ err' = [type |-> "TOMLDecodeError", msg |-> msg, key |-> key]

\* An exception of get_or_create_nest: the rules catch KeyError and raise
\* 'Can not overwrite a value'; any other exception leaves loads as it is.
RaiseNestError(exc) ==
    IF exc = "KeyError" THEN Raise("Can not overwrite a value", <<>>)
    ELSE /\ pc' = "raised"
         /\ err' = [type |-> exc, msg |-> "", key |-> <<>>]

Consume(stmt) ==
    /\ pc = "parsing"
    /\ Len(doc) < MaxStmts
    /\ doc' = Append(doc, stmt)

\* create_dict_rule that marks every prefix of the key EXPLICIT_NEST.
CreateDictRuleMarkingPrefixes(key) ==
    LET flags1 == SetForRelativeKey(flags, <<>>, key, EXPLICIT_NEST)
        r == GetOrCreateNest(out, key)
    IN /\ Consume(DictStmt(key))
       /\ IF Is(flags, key, EXPLICIT_NEST) \/ Is(flags, key, FROZEN) THEN
              /\ Raise("Can not declare twice", key)
              /\ UNCHANGED <<out, flags, header>>
          ELSE IF r.exc # "" THEN
              /\ RaiseNestError(r.exc)
              /\ flags' = flags1
              /\ out' = r.cont
              /\ UNCHANGED header
          ELSE
              /\ flags' = flags1
              /\ out' = r.cont
              /\ header' = key
              /\ UNCHANGED <<pc, err>>

\* create_dict_rule that does not look at FROZEN.
CreateDictRuleNoFrozenCheck(key) ==
    LET flags1 == Set(flags, key, EXPLICIT_NEST, FALSE)
        r == GetOrCreateNest(out, key)
    IN /\ Consume(DictStmt(key))
       /\ IF Is(flags, key, EXPLICIT_NEST) THEN
              /\ Raise("Can not declare twice", key)
              /\ UNCHANGED <<out, flags, header>>
          ELSE IF r.exc # "" THEN
              /\ RaiseNestError(r.exc)
              /\ flags' = flags1
              /\ out' = r.cont
              /\ UNCHANGED header
          ELSE
              /\ flags' = flags1
              /\ out' = r.cont
              /\ header' = key
              /\ UNCHANGED <<pc, err>>

\* [key]
CreateDictRule(key) ==
    LET flags1 == Set(flags, key, EXPLICIT_NEST, FALSE)
        r == GetOrCreateNest(out, key)
    IN /\ Consume(DictStmt(key))
       /\ IF Is(flags, key, EXPLICIT_NEST) \/ Is(flags, key, FROZEN) THEN
              /\ Raise("Can not declare twice", key)
              /\ UNCHANGED <<out, flags, header>>
          ELSE IF r.exc # "" THEN
              /\ RaiseNestError(r.exc)
              /\ flags' = flags1
              /\ out' = r.cont
              /\ UNCHANGED header
          ELSE
              /\ flags' = flags1
              /\ out' = r.cont
              /\ header' = key
              /\ UNCHANGED <<pc, err>>

\* [[key]]
CreateListRule(key) ==
    LET flags1 == Set(UnsetAll(flags, key), key, EXPLICIT_NEST, FALSE)
        r == AppendNestToList(out, key)
    IN /\ Consume(ListStmt(key))
       /\ IF Is(flags, key, FROZEN) THEN
              /\ Raise("Can not mutate immutable namespace", key)
              /\ UNCHANGED <<out, flags, header>>
          ELSE IF r.exc # "" THEN
              /\ RaiseNestError(r.exc)
              /\ flags' = flags1
              /\ out' = r.cont
              /\ UNCHANGED header
          ELSE
              /\ flags' = flags1
              /\ out' = r.cont
              /\ header' = key
              /\ UNCHANGED <<pc, err>>

\* key_value_rule that takes the key from the root of the document.
KeyValueRuleFromRoot(key, value) ==
    LET key_parent == SubSeq(key, 1, Len(key) - 1)
        key_stem == key[Len(key)]
        abs_key_parent == key_parent
        abs_key == key
        flags1 == SetForRelativeKey(flags, <<>>, key, EXPLICIT_NEST)
        r == GetOrCreateNest(out, abs_key_parent)
        nest == Deref(r.cont, r.ref)
    IN /\ Consume(KVStmt(key, value))
       /\ UNCHANGED header
       /\ IF Is(flags, abs_key_parent, FROZEN) THEN
              /\ Raise("Can not mutate immutable namespace", abs_key_parent)
              /\ UNCHANGED <<out, flags>>
          ELSE IF r.exc # "" THEN
              /\ RaiseNestError(r.exc)
              /\ flags' = flags1
              /\ out' = r.cont
          ELSE IF key_stem \in DOMAIN nest THEN
              /\ Raise("Can not define twice", abs_key)
              /\ flags' = flags1
              /\ out' = r.cont
          ELSE
              /\ flags' = IF value.t \in {"dict", "list"}
                          THEN Set(flags1, abs_key, FROZEN, TRUE)
                          ELSE flags1
              /\ out' = Store(r.cont, r.ref, key_stem, value)
              /\ UNCHANGED <<pc, err>>

\* key_value_rule without the check that the key is new to its table.
KeyValueRuleOverwriting(key, value) ==
    LET key_parent == SubSeq(key, 1, Len(key) - 1)
        key_stem == key[Len(key)]
        abs_key_parent == header \o key_parent
        abs_key == header \o key
        flags1 == SetForRelativeKey(flags, header, key, EXPLICIT_NEST)
        r == GetOrCreateNest(out, abs_key_parent)
    IN /\ Consume(KVStmt(key, value))
       /\ UNCHANGED header
       /\ IF Is(flags, abs_key_parent, FROZEN) THEN
              /\ Raise("Can not mutate immutable namespace", abs_key_parent)
              /\ UNCHANGED <<out, flags>>
          ELSE IF r.exc # "" THEN
              /\ RaiseNestError(r.exc)
              /\ flags' = flags1
              /\ out' = r.cont
          ELSE
              /\ flags' = IF value.t \in {"dict", "list"}
                          THEN Set(flags1, abs_key, FROZEN, TRUE)
                          ELSE flags1
              /\ out' = Store(r.cont, r.ref, key_stem, value)
              /\ UNCHANGED <<pc, err>>

\* key = value
KeyValueRule(key, value) ==
    LET key_parent == SubSeq(key, 1, Len(key) - 1)
        key_stem == key[Len(key)]
        abs_key_parent == header \o key_parent
        abs_key == header \o key
        flags1 == SetForRelativeKey(flags, header, key, EXPLICIT_NEST)
        r == GetOrCreateNest(out, abs_key_parent)
        nest == Deref(r.cont, r.ref)
    IN /\ Consume(KVStmt(key, value))
       /\ UNCHANGED header
       /\ IF Is(flags, abs_key_parent, FROZEN) THEN
              /\ Raise("Can not mutate immutable namespace", abs_key_parent)
              /\ UNCHANGED <<out, flags>>
          ELSE IF r.exc # "" THEN
              /\ RaiseNestError(r.exc)
              /\ flags' = flags1
              /\ out' = r.cont
          ELSE IF key_stem \in DOMAIN nest THEN
              /\ Raise("Can not define twice", abs_key)
              /\ flags' = flags1
              /\ out' = r.cont
          ELSE
              /\ flags' = IF value.t \in {"dict", "list"}
                          THEN Set(flags1, abs_key, FROZEN, TRUE)
                          ELSE flags1
              /\ out' = Store(r.cont, r.ref, key_stem, value)
              /\ UNCHANGED <<pc, err>>

\* End of input: loads leaves the statement loop and returns state.out.dict.
EndOfDocument ==
    /\ pc = "parsing"
    /\ pc' = "returned"
    /\ UNCHANGED <<out, flags, header, doc, err>>

Init ==
    /\ out = EmptyCont
    /\ flags = EmptyCont
    /\ header = <<>>
    /\ doc = <<>>
    /\ pc = "parsing"
    /\ err = NoErr
    /\ arg = NoArg
    /\ src = <<>>
    /\ pos = 0

Next ==
    \/ \E key \in Keys : CreateDictRule(key) /\ UNCHANGED <<arg, src, pos>>
    \/ \E key \in Keys : CreateListRule(key) /\ UNCHANGED <<arg, src, pos>>
    \/ \E key \in Keys, value \in Values :
           KeyValueRule(key, value) /\ UNCHANGED <<arg, src, pos>>
    \/ EndOfDocument /\ UNCHANGED <<arg, src, pos>>

Spec == Init /\ [][Next]_vars

\* ------------------------------------------------- reading a document back
\* What the claims say is said of the document read so far: statement i, the
\* header namespace it was read under, the path it names.

IsPrefix(p, q) == Len(p) <= Len(q) /\ SubSeq(q, 1, Len(p)) = p
IsProperPrefix(p, q) == Len(p) < Len(q) /\ IsPrefix(p, q)

Front(key) == SubSeq(key, 1, Len(key) - 1)

IsHeader(s) == s.rule \in {"create_dict", "create_list"}
IsKV(s) == s.rule = "key_value"
Inline(v) == v.t \in {"dict", "list"}

\* Every statement but a last one that raised was accepted.
Accepted(i) == i \in 1..Len(doc) /\ (i < Len(doc) \/ pc # "raised")
Rejected(i) == i = Len(doc) /\ pc = "raised" /\ err.type = "TOMLDecodeError"
RejectedWith(i, msg, key) == Rejected(i) /\ err.msg = msg /\ err.key = key

\* The header namespace statement i is read under: the key of the last header
\* before it, the document root when there is none.
RECURSIVE HeaderBefore(_)
HeaderBefore(i) ==
    IF i <= 1 THEN <<>>
    ELSE IF IsHeader(doc[i - 1]) THEN doc[i - 1].key
    ELSE HeaderBefore(i - 1)

AbsKey(i) == HeaderBefore(i) \o doc[i].key
AbsKeyParent(i) == HeaderBefore(i) \o Front(doc[i].key)

\* The path statement i extends: a header's key, a key/value's parent path.
Target(i) == IF IsHeader(doc[i]) THEN doc[i].key ELSE AbsKeyParent(i)

\* Statement k opens a new array-of-tables element above path p.
Reset(k, p) == doc[k].rule = "create_list" /\ IsProperPrefix(doc[k].key, p)
NoReset(i, j, p) == \A k \in (i + 1)..(j - 1) : ~Reset(k, p)

\* The value at a key path, as the rules resolve it (through the last element
\* of every list on the way); Missing when there is none.
Missing == [t |-> "missing", v |-> 0]

RECURSIVE Lookup(_, _)
Lookup(cont, path) ==
    IF path[1] \notin DOMAIN cont THEN Missing
    ELSE LET c == cont[path[1]]
         IN IF Len(path) = 1 THEN c
            ELSE IF c.t = "dict" THEN Lookup(c.v, Tail(path))
            ELSE IF c.t = "list" /\ Len(c.v) > 0 /\ c.v[Len(c.v)].t = "dict"
                 THEN Lookup(c.v[Len(c.v)].v, Tail(path))
            ELSE Missing

\* The values at a key path in any element of the lists on the way.
RECURSIVE ValuesAt(_, _)
ValuesAt(cont, path) ==
    IF path[1] \notin DOMAIN cont THEN {}
    ELSE LET c == cont[path[1]]
         IN IF Len(path) = 1 THEN {c}
            ELSE IF c.t = "dict" THEN ValuesAt(c.v, Tail(path))
            ELSE IF c.t = "list"
                 THEN UNION { IF c.v[n].t = "dict" THEN ValuesAt(c.v[n].v, Tail(path)) ELSE {}
                              : n \in 1..Len(c.v) }
            ELSE {}

\* Statement i is an accepted key/value that bound an inline table or array.
InlineKV(i) == Accepted(i) /\ IsKV(doc[i]) /\ Inline(doc[i].value)

\* ---------------------------------------------------------------------- C1
\* C1 as stated: once a key/value has bound an inline table or array at path
\* p, every later header [q], [[q]] or key/value with parent path q, q equal
\* to or extending p, is rejected, and the value bound at p stays in the tree.
C1_FrozenForEver ==
    \A i \in 1..Len(doc) :
        InlineKV(i) =>
            /\ doc[i].value \in ValuesAt(out, AbsKey(i))
            /\ \A j \in (i + 1)..Len(doc) :
                   IsPrefix(AbsKey(i), Target(j)) => Rejected(j)

\* C1 amended: the same, as long as no [[r]] header with r a proper prefix of
\* p has opened a new array-of-tables element in between (p then names a path
\* of the new, empty element).
C1_FrozenUntilReset ==
    \A i \in 1..Len(doc) :
        InlineKV(i) =>
            /\ doc[i].value \in ValuesAt(out, AbsKey(i))
            /\ \A j \in (i + 1)..Len(doc) :
                   (IsPrefix(AbsKey(i), Target(j)) /\ NoReset(i, j, AbsKey(i)))
                       => Rejected(j)

\* A header below an inline table was read and rejected.
C1_Witness ==
    \E i \in 1..Len(doc) :
        /\ InlineKV(i)
        /\ \E j \in (i + 1)..Len(doc) :
               /\ IsHeader(doc[j])
               /\ IsProperPrefix(AbsKey(i), Target(j))
               /\ NoReset(i, j, AbsKey(i))
               /\ Rejected(j)

\* ---------------------------------------------------------------------- C2
\* Statement i makes path t one a [t] header may not open: a header names t, a
\* key/value names t with a prefix of its dotted key, or a key/value binds an
\* inline value at or above t.
Opens(i, t) ==
    \/ IsHeader(doc[i]) /\ doc[i].key = t
    \/ IsKV(doc[i]) /\ \E m \in 1..Len(doc[i].key) :
                           t = HeaderBefore(i) \o SubSeq(doc[i].key, 1, m)
    \/ IsKV(doc[i]) /\ Inline(doc[i].value) /\ IsPrefix(AbsKey(i), t)

\* C2: a [t] header whose path was opened before (by a header, by a dotted key,
\* or frozen by an inline value) and not reset since by a new array-of-tables
\* element fails with 'Can not declare t twice'; a returned document opens no
\* path twice by a table header within one namespace.
C2_NoRedeclaration ==
    /\ \A j \in 1..Len(doc) : \A i \in 1..(j - 1) :
           (doc[j].rule = "create_dict" /\ Opens(i, doc[j].key)
                /\ NoReset(i, j, doc[j].key))
               => RejectedWith(j, "Can not declare twice", doc[j].key)
    /\ pc = "returned" =>
           \A j \in 1..Len(doc) : \A i \in 1..(j - 1) :
               ~(doc[i].rule = "create_dict" /\ doc[j] = doc[i]
                     /\ NoReset(i, j, doc[j].key))

\* A second [t] header for the same t was read and rejected.
C2_Witness ==
    \E j \in 1..Len(doc) : \E i \in 1..(j - 1) :
        /\ doc[i].rule = "create_dict" /\ doc[j] = doc[i]
        /\ RejectedWith(j, "Can not declare twice", doc[j].key)

\* ---------------------------------------------------------------------- C3
\* The table at a path: the root table at the empty path.
TableAt(cont, path) == IF path = <<>> THEN DictVal(cont) ELSE Lookup(cont, path)

\* The last part of key is a key of the table that a key/value with this key
\* targets: the table at header namespace + dotted parent path.
TargetHasStem(key) ==
    LET tb == TableAt(out, header \o Front(key))
    IN tb.t = "dict" /\ key[Len(key)] \in DOMAIN tb.v

\* No two accepted key/values name the same absolute key within one namespace.
KeysWrittenOnce ==
    \A j \in 1..Len(doc) : \A i \in 1..(j - 1) :
        (IsKV(doc[i]) /\ IsKV(doc[j]) /\ AbsKey(i) = AbsKey(j)
             /\ NoReset(i, j, AbsKey(i)))
            => Rejected(j)

\* C3 as stated: a key/value whose last key part already exists in the table
\* it targets fails with 'Can not define <abs_key> twice' and leaves the
\* existing value in place; every key is written once.
C3_DefineTwice ==
    /\ [][\A key \in Keys, value \in Values :
              (doc' = Append(doc, KVStmt(key, value)) /\ TargetHasStem(key))
                  => /\ pc' = "raised"
                     /\ err' = [type |-> "TOMLDecodeError",
                                msg |-> "Can not define twice", key |-> header \o key]
                     /\ Lookup(out', header \o key) = Lookup(out, header \o key)]_vars
    /\ []KeysWrittenOnce

\* C3 amended: such a key/value fails and leaves the existing value in place;
\* the message is 'Can not define <abs_key> twice' unless the targeted table is
\* FROZEN (it is an inline table), and then it is 'Can not mutate immutable
\* namespace <abs_key_parent>'; every key is written once.
C3_DefineTwiceUnlessFrozen ==
    /\ [][\A key \in Keys, value \in Values :
              (doc' = Append(doc, KVStmt(key, value)) /\ TargetHasStem(key))
                  => /\ pc' = "raised"
                     /\ err' = IF Is(flags, header \o Front(key), FROZEN)
                               THEN [type |-> "TOMLDecodeError",
                                     msg |-> "Can not mutate immutable namespace",
                                     key |-> header \o Front(key)]
                               ELSE [type |-> "TOMLDecodeError",
                                     msg |-> "Can not define twice", key |-> header \o key]
                     /\ out' = out]_vars
    /\ []KeysWrittenOnce

\* A key/value for a key bound before, by a different value, was rejected.
C3_Witness ==
    \E j \in 1..Len(doc) : \E i \in 1..(j - 1) :
        /\ IsKV(doc[i]) /\ IsKV(doc[j]) /\ AbsKey(i) = AbsKey(j)
        /\ doc[i].value # doc[j].value
        /\ RejectedWith(j, "Can not define twice", AbsKey(j))
        /\ Lookup(out, AbsKey(j)) = doc[i].value

\* ---------------------------------------------------------------------- C4
\* Every path a flag can lie on: the absolute keys and their prefixes.
Paths ==
    UNION { { SubSeq(p, 1, n) : n \in 1..Len(p) }
            : p \in Keys \cup { h \o k : h \in Keys, k \in Keys } }

\* "[a.b]\n a = 1\n[a]\n a = 1": the document of the claim, its keys c and d
\* written with the key part a.
DocMerge ==
    << DictStmt(<<"a", "b">>), KVStmt(<<"a">>, IntVal(1)),
       DictStmt(<<"a">>), KVStmt(<<"a">>, IntVal(1)) >>

\* C4: an accepted [t] header marks t EXPLICIT_NEST and no other path; after
\* [a.b] a later [a] is accepted and its key/values go to the table a that
\* holds b; a second [a.b] after that fails with 'Can not declare ... twice'.
C4_HeaderMarksOnlyItsPath ==
    /\ [][\A key \in Keys :
              (doc' = Append(doc, DictStmt(key)) /\ pc' = "parsing")
                  => \A q \in Paths :
                         /\ Is(flags', q, EXPLICIT_NEST)
                                <=> (q = key \/ Is(flags, q, EXPLICIT_NEST))
                         /\ Is(flags', q, FROZEN) <=> Is(flags, q, FROZEN)]_vars
    /\ [](doc = DocMerge =>
              /\ pc # "raised"
              /\ out = Put(EmptyCont, "a",
                           DictVal(Put(Put(EmptyCont, "b",
                                           DictVal(Put(EmptyCont, "a", IntVal(1)))),
                                       "a", IntVal(1)))))
    /\ [](\A i, j, k \in 1..Len(doc) :
              (i < j /\ j < k
                   /\ doc[i].rule = "create_dict" /\ doc[j].rule = "create_dict"
                   /\ IsProperPrefix(doc[j].key, doc[i].key) /\ doc[k] = doc[i]
                   /\ NoReset(i, k, doc[i].key))
                  => RejectedWith(k, "Can not declare twice", doc[k].key))

\* [a.b], a key/value, [a] and a key/value were read and the tree returned.
C4_Witness == doc = DocMerge /\ pc = "returned"

\* ---------------------------------------------------------------------- C5
\* The accepted [[p]] headers since the array's parent was last renewed.
LiveHeaders(p) ==
    { m \in 1..Len(doc) :
          /\ Accepted(m) /\ doc[m] = ListStmt(p)
          /\ \A k \in (m + 1)..Len(doc) : Accepted(k) => ~Reset(k, p) }

\* No header between statements m and n.
SameSection(m, n) == \A k \in (m + 1)..(n - 1) : ~IsHeader(doc[k])

\* "[[a]]\n a = 1\n[[a]]\n b = 1"
DocArray ==
    << ListStmt(<<"a">>), KVStmt(<<"a">>, IntVal(1)),
       ListStmt(<<"a">>), KVStmt(<<"b">>, IntVal(1)) >>

\* C5: after k accepted [[p]] headers in one parent the array at p holds k
\* tables; the i-th is empty right after its header and then holds the
\* key/values read between the i-th header and the next header.
C5_AppendOneTable ==
    /\ \A p \in Keys :
           LET live == LiveHeaders(p)
               l == Lookup(out, p)
           IN live # {} =>
                  /\ l.t = "list"
                  /\ Len(l.v) = Cardinality(live)
                  /\ \A m \in live :
                         LET i == Cardinality({ n \in live : n <= m })
                         IN /\ l.v[i].t = "dict"
                            /\ m = Len(doc) => l.v[i].v = EmptyCont
                            /\ \A n \in (m + 1)..Len(doc) :
                                   (Accepted(n) /\ IsKV(doc[n]) /\ SameSection(m, n))
                                       => Lookup(l.v[i].v, doc[n].key) = doc[n].value
    /\ (doc = DocArray /\ pc # "raised") =>
           out = Put(EmptyCont, "a",
                     ListVal(<< DictVal(Put(EmptyCont, "a", IntVal(1))),
                                DictVal(Put(EmptyCont, "b", IntVal(1))) >>))

\* Two [[a]] headers, each followed by a key/value, were read and the tree returned.
C5_Witness == doc = DocArray /\ pc = "returned"

\* ---------------------------------------------------------------------- C6
\* "[[a]]\n[a.b]\n[[a]]\n[a.b]": the sub-table header of the first element is
\* used again in the second.
DocRenewHeader ==
    << ListStmt(<<"a">>), DictStmt(<<"a", "b">>),
       ListStmt(<<"a">>), DictStmt(<<"a", "b">>) >>

\* "[[a]]\nb.a = 1\n[[a]]\nb.a = 1": the same with a dotted key.
DocRenewDotted ==
    << ListStmt(<<"a">>), KVStmt(<<"b", "a">>, IntVal(1)),
       ListStmt(<<"a">>), KVStmt(<<"b", "a">>, IntVal(1)) >>

\* C6: an accepted [[p]] header leaves p EXPLICIT_NEST and nothing else, no
\* flag at any path below p, and every flag at every other path as it was; so
\* a sub-table header or dotted key of the previous element is accepted again
\* in the new one, and a [p] header still fails.
C6_NewElementClearsFlags ==
    /\ [][\A key \in Keys :
              (doc' = Append(doc, ListStmt(key)) /\ pc' = "parsing")
                  => \A q \in Paths : \A f \in {FROZEN, EXPLICIT_NEST} :
                         Is(flags', q, f)
                             <=> IF q = key THEN f = EXPLICIT_NEST
                                 ELSE IF IsProperPrefix(key, q) THEN FALSE
                                 ELSE Is(flags, q, f)]_vars
    /\ [](doc \in {DocRenewHeader, DocRenewDotted} => pc # "raised")
    /\ [](\A j \in 1..Len(doc) : \A i \in 1..(j - 1) :
              (doc[i].rule = "create_list" /\ doc[j] = DictStmt(doc[i].key)
                   /\ NoReset(i, j, doc[i].key))
                  => RejectedWith(j, "Can not declare twice", doc[j].key))

\* The sub-table header was read in two elements and the tree returned.
C6_Witness == doc = DocRenewHeader /\ pc = "returned"

\* ---------------------------------------------------------------------- C7
\* Header j names a path that key/value i named with a prefix of its dotted key.
NamesPathOf(j, i) ==
    /\ IsKV(doc[i]) /\ doc[j].rule = "create_dict"
    /\ \E m \in 1..Len(doc[i].key) :
           doc[j].key = HeaderBefore(i) \o SubSeq(doc[i].key, 1, m)

\* An accepted key/value marks every path header + key[1..m] EXPLICIT_NEST and
\* changes the mark of no prefix of the header namespace.
KVMarksRelativePath ==
    [][\A key \in Keys, value \in Values :
           (doc' = Append(doc, KVStmt(key, value)) /\ pc' = "parsing")
               => /\ \A m \in 1..Len(key) :
                         Is(flags', header \o SubSeq(key, 1, m), EXPLICIT_NEST)
                  /\ \A m \in 1..Len(header) :
                         Is(flags', SubSeq(header, 1, m), EXPLICIT_NEST)
                             <=> Is(flags, SubSeq(header, 1, m), EXPLICIT_NEST)]_vars

\* C7 as stated: a key/value with a dotted key marks every path under the
\* header namespace that a prefix of its key names, and no prefix of the
\* header namespace; any later [t] header naming one of those paths fails.
C7_DottedKeyBlocksHeaderForEver ==
    /\ KVMarksRelativePath
    /\ [](\A j \in 1..Len(doc) : \A i \in 1..(j - 1) :
              NamesPathOf(j, i) => Rejected(j))

\* C7 amended: a later [t] header naming one of those paths fails with 'Can
\* not declare t twice' unless a [[r]] header, r a proper prefix of t, has
\* opened a new array-of-tables element in between.
C7_DottedKeyBlocksHeaderUntilReset ==
    /\ KVMarksRelativePath
    /\ [](\A j \in 1..Len(doc) : \A i \in 1..(j - 1) :
              (NamesPathOf(j, i) /\ NoReset(i, j, doc[j].key))
                  => RejectedWith(j, "Can not declare twice", doc[j].key))

\* A header for the intermediate table of an earlier dotted key was rejected.
C7_Witness ==
    \E j \in 1..Len(doc) : \E i \in 1..(j - 1) :
        /\ NamesPathOf(j, i) /\ Len(doc[i].key) = 2
        /\ doc[j].key = HeaderBefore(i) \o SubSeq(doc[i].key, 1, 1)
        /\ RejectedWith(j, "Can not declare twice", doc[j].key)

\* ---------------------------------------------------------------------- C8
\* C8: a key/value with a dotted key is rejected when an intermediate path of
\* the key (header namespace + a proper prefix of the key) was opened by a [t]
\* header: after [a.b], a later [a] section containing b.a = 1 is rejected.
C8_DottedKeyMayNotReuseHeaderTable ==
    \A k \in 1..Len(doc) : \A i \in 1..(k - 1) :
        (/\ doc[i].rule = "create_dict" /\ IsKV(doc[k])
         /\ \E m \in 1..(Len(doc[k].key) - 1) :
                doc[i].key = HeaderBefore(k) \o SubSeq(doc[k].key, 1, m)
         /\ NoReset(i, k, doc[i].key))
            => Rejected(k)

\* ---------------------------------------------------------------------- C9
\* "a = {a = 1}\n[a.b]": the document of the claim with its keys x, y, z
\* written a, a, b.
DocInlineThenHeader ==
    << KVStmt(<<"a">>, DictVal(Put(EmptyCont, "a", IntVal(1)))),
       DictStmt(<<"a", "b">>) >>

\* C9 as stated: the [a.b] header after a = {a = 1} fails with 'Can not mutate
\* immutable namespace' naming the frozen path ("a",).
C9_HeaderBelowInlineImmutableMessage ==
    doc = DocInlineThenHeader
        => RejectedWith(2, "Can not mutate immutable namespace", <<"a">>)

\* C9 amended: it fails with 'Can not declare ("a", "b") twice', the message
\* of a [t] header at or below any path frozen by an inline value.
C9_HeaderBelowInlineDeclaredTwice ==
    /\ doc = DocInlineThenHeader
           => RejectedWith(2, "Can not declare twice", <<"a", "b">>)
    /\ \A j \in 1..Len(doc) : \A i \in 1..(j - 1) :
           (InlineKV(i) /\ doc[j].rule = "create_dict"
                /\ IsPrefix(AbsKey(i), doc[j].key) /\ NoReset(i, j, AbsKey(i)))
               => RejectedWith(j, "Can not declare twice", doc[j].key)

\* The header below the inline table was read and raised.
C9_Witness == doc = DocInlineThenHeader /\ pc = "raised"

\* --------------------------------------------------------------------- C10
\* A proper prefix of the path holds an integer.
PassesScalar(path) ==
    \E n \in 1..(Len(path) - 1) : Lookup(out, SubSeq(path, 1, n)).t = "int"

\* The values without children, each with the place it lies at: the integers
\* and the empty lists of the tree under cont, which lies at loc.
RECURSIVE Leaves(_, _)
Leaves(cont, loc) ==
    UNION { LET c == cont[k]
            IN IF c.t = "dict" THEN Leaves(c.v, Append(loc, Step(k, 0)))
               ELSE IF c.t = "list" /\ Len(c.v) > 0
                    THEN UNION { IF c.v[n].t = "dict"
                                 THEN Leaves(c.v[n].v, Append(loc, Step(k, n)))
                                 ELSE { <<Append(loc, Step(k, n)), c.v[n]>> }
                                 : n \in 1..Len(c.v) }
               ELSE { <<Append(loc, Step(k, 0)), c>> }
            : k \in DOMAIN cont }

\* No statement gives a value without children a child, or replaces it.
LeavesStay == [][Leaves(out, <<>>) \subseteq Leaves(out', <<>>)]_vars

TomlError(msg, key) == [type |-> "TOMLDecodeError", msg |-> msg, key |-> key]

\* C10 as stated: a [t] header or a key/value whose path passes through a
\* scalar, and a [[a]] header whose last segment holds a table or a scalar,
\* fail with 'Can not overwrite a value'; no value without children gets one.
C10_OverwriteAlwaysReported ==
    /\ [][\A key \in Keys :
              /\ (doc' = Append(doc, DictStmt(key)) /\ PassesScalar(key))
                     => err' = TomlError("Can not overwrite a value", <<>>)
              /\ (doc' = Append(doc, ListStmt(key))
                      /\ Lookup(out, key).t \in {"dict", "int"})
                     => err' = TomlError("Can not overwrite a value", <<>>)
              /\ \A value \in Values :
                     (doc' = Append(doc, KVStmt(key, value))
                          /\ PassesScalar(header \o key))
                         => err' = TomlError("Can not overwrite a value", <<>>)]_vars
    /\ LeavesStay

\* C10 amended: they fail with 'Can not overwrite a value' unless the path is
\* FROZEN (at or below an inline table or array), and then with the rule's
\* error for a FROZEN path: 'Can not declare ... twice' for [t], 'Can not
\* mutate immutable namespace ...' for [[a]] and key/value.
C10_OverwriteReportedUnlessFrozen ==
    /\ [][\A key \in Keys :
              /\ (doc' = Append(doc, DictStmt(key)) /\ PassesScalar(key))
                     => err' = IF Is(flags, key, FROZEN)
                               THEN TomlError("Can not declare twice", key)
                               ELSE TomlError("Can not overwrite a value", <<>>)
              /\ (doc' = Append(doc, ListStmt(key))
                      /\ Lookup(out, key).t \in {"dict", "int"})
                     => err' = IF Is(flags, key, FROZEN)
                               THEN TomlError("Can not mutate immutable namespace", key)
                               ELSE TomlError("Can not overwrite a value", <<>>)
              /\ \A value \in Values :
                     (doc' = Append(doc, KVStmt(key, value))
                          /\ PassesScalar(header \o key))
                         => err' = IF Is(flags, header \o Front(key), FROZEN)
                                   THEN TomlError("Can not mutate immutable namespace",
                                                  header \o Front(key))
                                   ELSE TomlError("Can not overwrite a value", <<>>)]_vars
    /\ LeavesStay

\* "a = 1\n[a.b]" was read and raised 'Can not overwrite a value'.
C10_Witness ==
    /\ doc = << KVStmt(<<"a">>, IntVal(1)), DictStmt(<<"a", "b">>) >>
    /\ RejectedWith(2, "Can not overwrite a value", <<>>)
    /\ out = Put(EmptyCont, "a", IntVal(1))

\* ==================================================================== text
\* The text level of the parser: load and loads, the cursor state.pos over
\* state.src, the scanners, the key and value parsers and suffix_coord.  A
\* character is a string of one character; a control character TLA+ has no
\* escape for is written by its ASCII name.

\* chr(0) .. chr(31), in order.
CtrlNames ==
    << "NUL", "SOH", "STX", "ETX", "EOT", "ENQ", "ACK", "BEL",
       "BS", "\t", "\n", "VT", "\f", "\r", "SO", "SI",
       "DLE", "DC1", "DC2", "DC3", "DC4", "NAK", "SYN", "ETB",
       "CAN", "EM", "SUB", "ESC", "FS", "GS", "RS", "US" >>

ASCII_CTRL == { CtrlNames[i] : i \in 1..32 } \cup {"DEL"}

ILLEGAL_BASIC_STR_CHARS == ASCII_CTRL \ {"\t"}
ILLEGAL_MULTILINE_BASIC_STR_CHARS == ASCII_CTRL \ {"\t", "\n", "\r"}

ILLEGAL_LITERAL_STR_CHARS == ILLEGAL_BASIC_STR_CHARS
ILLEGAL_MULTILINE_LITERAL_STR_CHARS == ASCII_CTRL \ {"\t", "\n"}

ILLEGAL_COMMENT_CHARS == ILLEGAL_BASIC_STR_CHARS

TOML_WS == {" ", "\t"}
TOML_WS_AND_NEWLINE == TOML_WS \cup {"\n"}

\* string.digits, string.hexdigits and string.ascii_letters, each character
\* at the place of its value or of its rank.
DigitChars == << "0", "1", "2", "3", "4", "5", "6", "7", "8", "9" >>
LowerChars ==
    << "a", "b", "c", "d", "e", "f", "g", "h", "i", "j", "k", "l", "m",
       "n", "o", "p", "q", "r", "s", "t", "u", "v", "w", "x", "y", "z" >>
UpperChars ==
    << "A", "B", "C", "D", "E", "F", "G", "H", "I", "J", "K", "L", "M",
       "N", "O", "P", "Q", "R", "S", "T", "U", "V", "W", "X", "Y", "Z" >>

Range(f) == { f[i] : i \in DOMAIN f }

Digits == Range(DigitChars)
HexDigits == Digits \cup { LowerChars[i] : i \in 1..6 } \cup { UpperChars[i] : i \in 1..6 }
BARE_KEY_CHARS == Range(LowerChars) \cup Range(UpperChars) \cup Digits \cup {"-", "_"}

\* The place of a character in a sequence that holds it.
IndexIn(f, c) == CHOOSE i \in DOMAIN f : f[i] = c

\* int(c, 16) of one hex digit.
HexValue(c) ==
    IF c \in Digits THEN IndexIn(DigitChars, c) - 1
    ELSE IF c \in Range(LowerChars) THEN IndexIn(LowerChars, c) + 9
    ELSE IndexIn(UpperChars, c) + 9

\* int(digits, base) of a sequence of digits.
RECURSIVE IntOf(_, _)
IntOf(digits, base) ==
    IF digits = <<>> THEN 0
    ELSE IntOf(SubSeq(digits, 1, Len(digits) - 1), base) * base
             + HexValue(digits[Len(digits)])

\* The characters of s that are not c: s.replace(c, "").
RECURSIVE Without(_, _)
Without(s, c) ==
    IF s = <<>> THEN <<>>
    ELSE IF s[1] = c THEN Without(Tail(s), c)
    ELSE <<s[1]>> \o Without(Tail(s), c)

\* state.try_char() at the end of the text (None), and the empty slice.
NoChar == ""

\* src[pos] where there is one.
TryChar(s, p) == IF p < Len(s) THEN s[p + 1] ELSE NoChar

\* s[a:b] for 0 <= a.
Slice(s, a, b) ==
    LET e == IF b < Len(s) THEN b ELSE Len(s)
    IN IF a >= e THEN <<>> ELSE SubSeq(s, a + 1, e)

\* s.count(c, 0, p).
Count(s, c, p) == Cardinality({ i \in 1..p : s[i] = c })

\* s.rindex(c, 0, p), where c occurs before p.
RIndex(s, c, p) ==
    CHOOSE i \in 0..(p - 1) : s[i + 1] = c /\ \A j \in (i + 1)..(p - 1) : s[j + 1] # c

\* s.replace("\r\n", "\n").
RECURSIVE Replace(_)
Replace(s) ==
    IF s = <<>> THEN <<>>
    ELSE IF Len(s) >= 2 /\ s[1] = "\r" /\ s[2] = "\n"
         THEN <<"\n">> \o Replace(SubSeq(s, 3, Len(s)))
    ELSE <<s[1]>> \o Replace(Tail(s))

\* repr() of a str.  A message is the sequence of its parts: the words of
\* its text, the characters that enclose a formatted value, and the formatted
\* values.
HexDigitChars ==
    << "0", "1", "2", "3", "4", "5", "6", "7", "8", "9", "a", "b", "c", "d", "e", "f" >>

ReprChar(c, quote) ==
    IF c = "\n" THEN "\\n"
    ELSE IF c = "\t" THEN "\\t"
    ELSE IF c = "\r" THEN "\\r"
    ELSE IF c = "\\" THEN "\\\\"
    ELSE IF c = quote THEN "\\" \o c
    ELSE IF c = "DEL" THEN "\\x7f"
    ELSE IF c \in ASCII_CTRL
         THEN LET code == IndexIn(CtrlNames, c) - 1
              IN "\\x" \o HexDigitChars[(code \div 16) + 1] \o HexDigitChars[(code % 16) + 1]
    ELSE c

RECURSIVE ReprChars(_, _)
ReprChars(s, quote) ==
    IF s = <<>> THEN "" ELSE ReprChar(s[1], quote) \o ReprChars(Tail(s), quote)

Repr(s) ==
    LET quote == IF "'" \in Range(s) /\ "\"" \notin Range(s) THEN "\"" ELSE "'"
    IN quote \o ReprChars(s, quote) \o quote

\* ------------------------------------------------------------- exceptions
NoExc == [type |-> "", msg |-> <<>>, key |-> <<>>]

\* TOMLDecodeError(msg); key is the key the message names, written {key} in it.
TOMLDecodeError(msg, key) == [type |-> "TOMLDecodeError", msg |-> msg, key |-> key]

\* What a parser function leaves: state.pos and its value, or state.pos and
\* the exception it raised.
Return(p, val) == [exc |-> NoExc, pos |-> p, val |-> val]
RaiseAt(p, exc) == [exc |-> exc, pos |-> p, val |-> 0]
Raised(r) == r.exc.type # ""

\* ----------------------------------------------------------- suffix_coord
\* coord_repr that counts the columns from 0.
coord_repr_from_zero(s, p) ==
    IF TryChar(s, p) = NoChar THEN "end of document"
    ELSE LET line == Count(s, "\n", p) + 1
             column == IF line = 1 THEN p ELSE p - RIndex(s, "\n", p) - 1
         IN "line " \o ToString(line) \o ", column " \o ToString(column)

coord_repr(s, p) ==
    IF TryChar(s, p) = NoChar THEN "end of document"
    ELSE LET line == Count(s, "\n", p) + 1
             column == IF line = 1 THEN p + 1 ELSE p - RIndex(s, "\n", p)
         IN "line " \o ToString(line) \o ", column " \o ToString(column)

suffix_coord(s, p, msg) == msg \o << " (at ", coord_repr(s, p), ")" >>

\* ---------------------------------------------------------------- scanners
RECURSIVE skip_chars(_, _, _)
skip_chars(s, p, chars) ==
    IF p < Len(s) /\ s[p + 1] \in chars THEN skip_chars(s, p + 1, chars) ELSE p

RECURSIVE skip_until(_, _, _, _, _)
skip_until(s, p, expect_char, error_on, error_on_eof) ==
    IF p >= Len(s) THEN
        IF error_on_eof
        THEN RaiseAt(p, TOMLDecodeError(
                 suffix_coord(s, p, << "Expected", " ", "\"",
                                       Repr(<<expect_char>>), "\"" >>), <<>>))
        ELSE Return(p, 0)
    ELSE IF s[p + 1] = expect_char THEN Return(p, 0)
    ELSE IF s[p + 1] \in error_on
         THEN RaiseAt(p, TOMLDecodeError(
                  suffix_coord(s, p, << "Found invalid character", " ", "\"",
                                        Repr(<<s[p + 1]>>), "\"" >>), <<>>))
    ELSE skip_until(s, p + 1, expect_char, error_on, error_on_eof)

comment_rule(s, p) == skip_until(s, p + 1, "\n", ILLEGAL_COMMENT_CHARS, FALSE)

skip_comment(s, p) == IF TryChar(s, p) = "#" THEN comment_rule(s, p) ELSE Return(p, 0)

\* Each pass skips whitespace and newlines and then one comment; the loop
\* ends with the first pass that leaves state.pos where it was.
\* r is what one pass left.  (Where a function goes on from the result of a
\* call, the rest of it is a definition that takes the result.)
RECURSIVE skip_comments_and_array_ws(_, _)
skip_comments_and_array_ws_pass(s, pos_before_skip, r) ==
    IF Raised(r) \/ r.pos = pos_before_skip THEN r
    ELSE skip_comments_and_array_ws(s, r.pos)

skip_comments_and_array_ws(s, p) ==
    skip_comments_and_array_ws_pass(
        s, p, skip_comment(s, skip_chars(s, p, TOML_WS_AND_NEWLINE)))

\* ----------------------------------------------------------------- strings
\* chr(32) .. chr(126), in order (the grave accent by its name).
PrintableChars ==
    << " ", "!", "\"", "#", "$", "%", "&", "'", "(", ")", "*", "+", ",", "-", ".", "/" >>
    \o DigitChars \o << ":", ";", "<", "=", ">", "?", "@" >>
    \o UpperChars \o << "[", "\\", "]", "^", "_", "GRAVE" >>
    \o LowerChars \o << "{", "|", "}", "~" >>

\* chr(n); a character beyond ASCII is written by its code point.
Chr(n) ==
    IF n < 32 THEN CtrlNames[n + 1]
    ELSE IF n < 127 THEN PrintableChars[n - 31]
    ELSE IF n = 127 THEN "DEL"
    ELSE "U+" \o ToString(n)

is_unicode_scalar_value(codepoint) ==
    (0 <= codepoint /\ codepoint <= 55295) \/ (57344 <= codepoint /\ codepoint <= 1114111)

parse_hex_char(s, p, hex_len) ==
    LET hex_str == Slice(s, p, p + hex_len)
        hex_int == IntOf(hex_str, 16)
    IN IF Len(hex_str) # hex_len \/ \E i \in 1..Len(hex_str) : hex_str[i] \notin HexDigits
       THEN RaiseAt(p, TOMLDecodeError(suffix_coord(s, p, <<"Invalid hex value">>), <<>>))
       ELSE IF ~is_unicode_scalar_value(hex_int)
       THEN RaiseAt(p + hex_len, TOMLDecodeError(
                suffix_coord(s, p + hex_len,
                             <<"Escaped character is not a Unicode scalar value">>), <<>>))
       ELSE Return(p + hex_len, <<Chr(hex_int)>>)

BASIC_STR_ESCAPE_REPLACEMENTS ==
    [c \in {"b", "t", "n", "f", "r", "\"", "\\"} |->
        IF c = "b" THEN "BS"
        ELSE IF c = "t" THEN "\t"
        ELSE IF c = "n" THEN "\n"
        ELSE IF c = "f" THEN "\f"
        ELSE IF c = "r" THEN "\r"
        ELSE c]

\* parse_basic_str_escape that skips the newline of a line-ending backslash
\* and nothing after it.
parse_basic_str_escape_one_newline(s, p, multiline) ==
    LET escape_id == Slice(s, p, p + 2)
        q == p + 2
        Unescaped(at) ==
            RaiseAt(at, TOMLDecodeError(
                suffix_coord(s, at, <<"Unescaped \"\\\" in a string">>), <<>>))
    IN IF Len(escape_id) # 2
       THEN RaiseAt(p, TOMLDecodeError(suffix_coord(s, p, <<"Unterminated string">>), <<>>))
       ELSE IF multiline /\ escape_id[2] \in {" ", "\t", "\n"} THEN
           IF escape_id[2] # "\n" THEN
               LET w == skip_chars(s, q, TOML_WS)
               IN IF TryChar(s, w) = NoChar THEN Return(w, <<>>)
                  ELSE IF TryChar(s, w) # "\n" THEN Unescaped(w)
                  ELSE Return(w + 1, <<>>)
           ELSE Return(q, <<>>)
       ELSE IF escape_id[2] \in DOMAIN BASIC_STR_ESCAPE_REPLACEMENTS
       THEN Return(q, <<BASIC_STR_ESCAPE_REPLACEMENTS[escape_id[2]]>>)
       ELSE IF escape_id[2] = "u" THEN parse_hex_char(s, q, 4)
       ELSE IF escape_id[2] = "U" THEN parse_hex_char(s, q, 8)
       ELSE Unescaped(q)

\* The value is the string the escape stands for.
parse_basic_str_escape(s, p, multiline) ==
    LET escape_id == Slice(s, p, p + 2)
        q == p + 2
        Unescaped(at) ==
            RaiseAt(at, TOMLDecodeError(
                suffix_coord(s, at, <<"Unescaped \"\\\" in a string">>), <<>>))
    IN IF Len(escape_id) # 2
       THEN RaiseAt(p, TOMLDecodeError(suffix_coord(s, p, <<"Unterminated string">>), <<>>))
       ELSE IF multiline /\ escape_id[2] \in {" ", "\t", "\n"} THEN
           IF escape_id[2] # "\n" THEN
               LET w == skip_chars(s, q, TOML_WS)
               IN IF TryChar(s, w) = NoChar THEN Return(w, <<>>)
                  ELSE IF TryChar(s, w) # "\n" THEN Unescaped(w)
                  ELSE Return(skip_chars(s, w + 1, TOML_WS_AND_NEWLINE), <<>>)
           ELSE Return(skip_chars(s, q, TOML_WS_AND_NEWLINE), <<>>)
       ELSE IF escape_id[2] \in DOMAIN BASIC_STR_ESCAPE_REPLACEMENTS
       THEN Return(q, <<BASIC_STR_ESCAPE_REPLACEMENTS[escape_id[2]]>>)
       ELSE IF escape_id[2] = "u" THEN parse_hex_char(s, q, 4)
       ELSE IF escape_id[2] = "U" THEN parse_hex_char(s, q, 8)
       ELSE Unescaped(q)

\* parse_escapes is "none" (None), "basic" or "multiline"; p, start_pos and
\* result are the loop's pos, start_pos and result.
RECURSIVE parse_string_from(_, _, _, _, _, _, _, _)
\* e is what parse_basic_str_escape left, result the string before the escape.
parse_string_escape(s, e, result, delim, delim_len, error_on, parse_escapes) ==
    IF Raised(e) THEN e
    ELSE parse_string_from(s, e.pos, e.pos, result \o e.val,
                           delim, delim_len, error_on, parse_escapes)

parse_string_from(s, p, start_pos, result, delim, delim_len, error_on, parse_escapes) ==
    IF p >= Len(s)
    THEN RaiseAt(p, TOMLDecodeError(suffix_coord(s, p, <<"Unterminated string">>), <<>>))
    ELSE LET char == s[p + 1]
         IN IF char = delim THEN
                IF Slice(s, p + 1, p + delim_len) = [i \in 1..(delim_len - 1) |-> delim]
                THEN Return(p + delim_len, result \o Slice(s, start_pos, p))
                ELSE parse_string_from(s, p + 1, start_pos, result, delim, delim_len,
                                       error_on, parse_escapes)
            ELSE IF parse_escapes # "none" /\ char = "\\"
            THEN parse_string_escape(
                     s, parse_basic_str_escape(s, p, parse_escapes = "multiline"),
                     result \o Slice(s, start_pos, p),
                     delim, delim_len, error_on, parse_escapes)
            ELSE IF char \in error_on
            THEN RaiseAt(p, TOMLDecodeError(
                     suffix_coord(s, p, << "Illegal character", " ", "\"",
                                           Repr(<<char>>), "\"" >>), <<>>))
            ELSE parse_string_from(s, p + 1, start_pos, result, delim, delim_len,
                                   error_on, parse_escapes)

parse_string(s, p, delim, delim_len, error_on, parse_escapes) ==
    parse_string_from(s, p, p, <<>>, delim, delim_len, error_on, parse_escapes)

parse_basic_str(s, p) ==
    parse_string(s, p + 1, "\"", 1, ILLEGAL_BASIC_STR_CHARS, "basic")

\* r is what skip_until left.
parse_literal_str_end(s, start_pos, r) ==
    IF Raised(r) THEN r ELSE Return(r.pos + 1, Slice(s, start_pos, r.pos))

parse_literal_str(s, p) ==
    parse_literal_str_end(
        s, p + 1, skip_until(s, p + 1, "'", ILLEGAL_LITERAL_STR_CHARS, TRUE))

\* parse_multiline_str that ends the string with the three closing quotes.
parse_multiline_str_end_at_three(s, delim, r) == r

\* r is what parse_string left: the one or two quotes after the closing
\* three belong to the string.
parse_multiline_str_end(s, delim, r) ==
    IF Raised(r) THEN r
    ELSE IF TryChar(s, r.pos) # delim THEN r
    ELSE IF TryChar(s, r.pos + 1) # delim THEN Return(r.pos + 1, r.val \o <<delim>>)
    ELSE Return(r.pos + 2, r.val \o <<delim, delim>>)

\* q is state.pos after the three quotes and the newline that may follow.
parse_multiline_str_body(s, q, literal) ==
    IF literal
    THEN parse_multiline_str_end(
             s, "'", parse_string(s, q, "'", 3, ILLEGAL_MULTILINE_LITERAL_STR_CHARS, "none"))
    ELSE parse_multiline_str_end(
             s, "\"", parse_string(s, q, "\"", 3, ILLEGAL_MULTILINE_BASIC_STR_CHARS,
                                   "multiline"))

parse_multiline_str(s, p, literal) ==
    parse_multiline_str_body(
        s, IF TryChar(s, p + 3) = "\n" THEN p + 4 ELSE p + 3, literal)

\* ------------------------------------------------------------------ values
StrVal(chars) == [t |-> "str", v |-> chars]
BoolVal(b) == [t |-> "bool", v |-> b]

\* state.parse_float(match_str): what the caller's function makes of the text.
parse_float(match_str) == [t |-> "parse_float", v |-> match_str]

\* tzinfo: None, or timezone(timedelta(minutes = n)); timezone.utc is n = 0.
NoTz == [aware |-> FALSE, minutes |-> 0]
Tz(n) == [aware |-> TRUE, minutes |-> n]

IsLeap(year) == year % 4 = 0 /\ (year % 100 # 0 \/ year % 400 = 0)

DaysInMonth(year, month) ==
    IF month = 2 THEN (IF IsLeap(year) THEN 29 ELSE 28)
    ELSE IF month \in {4, 6, 9, 11} THEN 30
    ELSE 31

\* date(year, month, day) and datetime(...): the value, or the ValueError the
\* constructor raises for a field out of range.
ValidDate(year, month, day) ==
    /\ 1 <= year /\ year <= 9999
    /\ 1 <= month /\ month <= 12
    /\ 1 <= day /\ day <= DaysInMonth(year, month)

ValueError == [type |-> "ValueError", msg |-> <<>>, key |-> <<>>]

date(p, year, month, day) ==
    IF ValidDate(year, month, day)
    THEN Return(p, [t |-> "date", v |-> <<year, month, day>>])
    ELSE RaiseAt(p, ValueError)

datetime(p, year, month, day, hour, minute, sec, micros, tz) ==
    IF ValidDate(year, month, day)
    THEN Return(p, [t |-> "datetime",
                    v |-> <<year, month, day, hour, minute, sec, micros>>, tz |-> tz])
    ELSE RaiseAt(p, ValueError)

time(hour, minute, sec, micros) == [t |-> "time", v |-> <<hour, minute, sec, micros>>]

\* The regular expressions: match(s, p) is [end |-> the end of the match, or
\* -1 where there is none] with the groups, None written <<>>.
NoMatch == [end |-> -1]

IsDigitAt(s, p) == TryChar(s, p) \in Digits

\* The two digits at p as a number, -1 where they are not two digits.
TwoDigits(s, p) ==
    IF IsDigitAt(s, p) /\ IsDigitAt(s, p + 1) THEN IntOf(Slice(s, p, p + 2), 10) ELSE -1

\* [0-9]* from p: where it ends.
RECURSIVE DigitsEnd(_, _)
DigitsEnd(s, p) == IF IsDigitAt(s, p) THEN DigitsEnd(s, p + 1) ELSE p

\* ([01][0-9]|2[0-3]):([0-5][0-9]):([0-5][0-9])(\.[0-9]+)?
RE_LOCAL_TIME(s, p) ==
    LET hour == TwoDigits(s, p)
        minute == TwoDigits(s, p + 3)
        sec == TwoDigits(s, p + 6)
        frac_end == IF TryChar(s, p + 8) = "." /\ IsDigitAt(s, p + 9)
                    THEN DigitsEnd(s, p + 9) ELSE p + 8
    IN IF /\ hour \in 0..23 /\ TryChar(s, p + 2) = ":"
          /\ minute \in 0..59 /\ TryChar(s, p + 5) = ":"
          /\ sec \in 0..59
       THEN [end |-> frac_end,
             groups |-> << Slice(s, p, p + 2), Slice(s, p + 3, p + 5),
                           Slice(s, p + 6, p + 8), Slice(s, p + 8, frac_end) >>]
       ELSE NoMatch

\* ([0-9]{4})-(0[1-9]|1[0-2])-(0[1-9]|[12][0-9]|3[01])
\* (?:[Tt ]<time>(?:[Zz]|[+-]([01][0-9]|2[0-3]):([0-5][0-9]))?)?
\* The time and the offset after the date that ends at date_end; t is the
\* match of the time.
RE_DATETIME_time(s, date_end, date_groups, t) ==
    IF t.end = -1
    THEN [end |-> date_end, groups |-> date_groups \o << <<>>, <<>>, <<>>, <<>>, <<>>, <<>> >>]
    ELSE IF TryChar(s, t.end) \in {"Z", "z"}
    THEN [end |-> t.end + 1, groups |-> date_groups \o t.groups \o << <<>>, <<>> >>]
    ELSE IF /\ TryChar(s, t.end) \in {"+", "-"}
            /\ TwoDigits(s, t.end + 1) \in 0..23 /\ TryChar(s, t.end + 3) = ":"
            /\ TwoDigits(s, t.end + 4) \in 0..59
    THEN [end |-> t.end + 6,
          groups |-> date_groups \o t.groups
                         \o << Slice(s, t.end + 1, t.end + 3), Slice(s, t.end + 4, t.end + 6) >>]
    ELSE [end |-> t.end, groups |-> date_groups \o t.groups \o << <<>>, <<>> >>]

RE_DATETIME(s, p) ==
    IF ~(/\ \A i \in 0..3 : IsDigitAt(s, p + i)
         /\ TryChar(s, p + 4) = "-" /\ TwoDigits(s, p + 5) \in 1..12
         /\ TryChar(s, p + 7) = "-" /\ TwoDigits(s, p + 8) \in 1..31)
    THEN NoMatch
    ELSE RE_DATETIME_time(
             s, p + 10,
             << Slice(s, p, p + 4), Slice(s, p + 5, p + 7), Slice(s, p + 8, p + 10) >>,
             IF TryChar(s, p + 10) \in {"T", "t", " "}
             THEN RE_LOCAL_TIME(s, p + 11) ELSE NoMatch)

\* (?:_?D)* from p for the digits D: where it ends.
RECURSIVE DigitRunEnd(_, _, _)
DigitRunEnd(s, p, D) ==
    IF TryChar(s, p) \in D THEN DigitRunEnd(s, p + 1, D)
    ELSE IF TryChar(s, p) = "_" /\ TryChar(s, p + 1) \in D THEN DigitRunEnd(s, p + 2, D)
    ELSE p

\* D(?:_?D)* for the digits D: the tail of a hex, octal or binary integer.
RE_DIGITS(s, p, D) ==
    IF TryChar(s, p) \in D THEN [end |-> DigitRunEnd(s, p + 1, D)] ELSE NoMatch

RE_HEX(s, p) == RE_DIGITS(s, p, HexDigits)
RE_OCT(s, p) == RE_DIGITS(s, p, {"0", "1", "2", "3", "4", "5", "6", "7"})
RE_BIN(s, p) == RE_DIGITS(s, p, {"0", "1"})

\* [+-]?(?:0|[1-9](?:_?[0-9])*)(?:\.[0-9](?:_?[0-9])*)?(?:[eE][+-]?[0-9](?:_?[0-9])*)?
RE_DEC_OR_FLOAT(s, p) ==
    LET i == IF TryChar(s, p) \in {"+", "-"} THEN p + 1 ELSE p
        int_end == IF TryChar(s, i) = "0" THEN i + 1
                   ELSE IF IsDigitAt(s, i) THEN DigitRunEnd(s, i + 1, Digits)
                   ELSE -1
        frac_end == IF TryChar(s, int_end) = "." /\ IsDigitAt(s, int_end + 1)
                    THEN DigitRunEnd(s, int_end + 2, Digits) ELSE int_end
        x == IF TryChar(s, frac_end + 1) \in {"+", "-"} THEN frac_end + 2 ELSE frac_end + 1
        exp_end == IF TryChar(s, frac_end) \in {"e", "E"} /\ IsDigitAt(s, x)
                   THEN DigitRunEnd(s, x + 1, Digits) ELSE frac_end
    IN IF int_end = -1 THEN NoMatch ELSE [end |-> exp_end]

\* int(text, base) of a literal: underscores and a sign allowed.
int(text, base) ==
    LET digits == Without(text, "_")
    IN IF digits[1] = "-" THEN 0 - IntOf(Tail(digits), base)
       ELSE IF digits[1] = "+" THEN IntOf(Tail(digits), base)
       ELSE IntOf(digits, base)

parse_regex(s, p, match) ==
    IF match.end = -1
    THEN RaiseAt(p, TOMLDecodeError(suffix_coord(s, p, <<"Unexpected sequence">>), <<>>))
    ELSE Return(match.end, Slice(s, p, match.end))

\* micros without the zeros that fill a short fraction.
MicrosUnpadded(micros_str) ==
    IF micros_str = <<>> THEN 0
    ELSE LET digits == Tail(micros_str)
         IN int(SubSeq(digits, 1, IF Len(digits) < 6 THEN Len(digits) ELSE 6), 10)

\* int(micros_str[1:].ljust(6, "0")[:6]) if micros_str else 0
Micros(micros_str) ==
    IF micros_str = <<>> THEN 0
    ELSE LET digits == Tail(micros_str)
             padded == IF Len(digits) >= 6 THEN digits
                       ELSE digits \o [i \in 1..(6 - Len(digits)) |-> "0"]
         IN int(SubSeq(padded, 1, 6), 10)

parse_datetime(s, p, match) ==
    LET match_str == Slice(s, p, match.end)
        g == match.groups
        year == int(g[1], 10)
        month == int(g[2], 10)
        day == int(g[3], 10)
        offset_dir == IF "+" \in Range(match_str) THEN 1 ELSE -1
        tz == IF g[8] # <<>>
              THEN Tz(offset_dir * int(g[8], 10) * 60 + offset_dir * int(g[9], 10))
              ELSE IF "Z" \in Range(match_str) THEN Tz(0)
              ELSE NoTz
    IN IF g[4] = <<>> THEN date(match.end, year, month, day)
       ELSE datetime(match.end, year, month, day, int(g[4], 10), int(g[5], 10),
                     int(g[6], 10), Micros(g[7]), tz)

parse_localtime(s, match) ==
    LET g == match.groups
    IN Return(match.end, time(int(g[1], 10), int(g[2], 10), int(g[3], 10), Micros(g[4])))

\* parse_dec_or_float that makes the number itself.
parse_dec_or_float_native(s, p, match) ==
    LET match_str == Slice(s, p, match.end)
    IN IF Range(match_str) \cap {".", "e", "E"} # {}
       THEN Return(match.end, [t |-> "float", v |-> match_str])
       ELSE Return(match.end, IntVal(int(match_str, 10)))

parse_dec_or_float(s, p, match) ==
    LET match_str == Slice(s, p, match.end)
    IN IF Range(match_str) \cap {".", "e", "E"} # {}
       THEN Return(match.end, parse_float(match_str))
       ELSE Return(match.end, IntVal(int(match_str, 10)))

\* ----------------------------------------------------- keys and containers
parse_key_part(s, p) ==
    LET char == TryChar(s, p)
    IN IF char \in BARE_KEY_CHARS
       THEN LET e == skip_chars(s, p, BARE_KEY_CHARS) IN Return(e, Slice(s, p, e))
       ELSE IF char = "'" THEN parse_literal_str(s, p)
       ELSE IF char = "\"" THEN parse_basic_str(s, p)
       ELSE RaiseAt(p, TOMLDecodeError(
                suffix_coord(s, p, <<"Invalid initial character for a key part">>), <<>>))

\* The loop of parse_key, with the parts read so far; p is after the
\* whitespace that follows the last of them.
RECURSIVE parse_key_from(_, _, _)
\* r is what parse_key_part left, key the parts before it.
parse_key_part_read(s, r, key) ==
    IF Raised(r) THEN r
    ELSE parse_key_from(s, skip_chars(s, r.pos, TOML_WS), Append(key, r.val))

parse_key_from(s, p, key) ==
    IF TryChar(s, p) # "." THEN Return(p, key)
    ELSE parse_key_part_read(s, parse_key_part(s, skip_chars(s, p + 1, TOML_WS)), key)

parse_key(s, p) == parse_key_part_read(s, parse_key_part(s, p), <<>>)

\* The interpreter's recursion limit, in nested arrays and inline tables.
RecursionLimit == 3

RecursionError == [type |-> "RecursionError", msg |-> <<>>, key |-> <<>>]

RECURSIVE parse_value(_, _, _)
RECURSIVE parse_array_from(_, _, _, _)
RECURSIVE parse_inline_table_from(_, _, _, _, _)

\* depth counts the arrays and inline tables the value lies in; k is what
\* parse_key left and v what parse_value left.
parse_key_value_pair_value(k, v) ==
    IF Raised(v) THEN v ELSE Return(v.pos, [key |-> k.val, value |-> v.val])

parse_key_value_pair_key(s, k, depth) ==
    IF Raised(k) THEN k
    ELSE IF TryChar(s, k.pos) # "="
    THEN RaiseAt(k.pos, TOMLDecodeError(
             suffix_coord(s, k.pos, <<"Expected \"=\" after a key in a key/value pair">>),
             <<>>))
    ELSE parse_key_value_pair_value(
             k, parse_value(s, skip_chars(s, k.pos + 1, TOML_WS), depth))

parse_key_value_pair(s, p, depth) == parse_key_value_pair_key(s, parse_key(s, p), depth)

\* The loop of parse_array from array.append(parse_value(state)) on: v is
\* what parse_value left, w what skip_comments_and_array_ws left after the
\* value and x what it left after the comma.
parse_array_comma(s, depth, array, x) ==
    IF Raised(x) THEN x
    ELSE IF TryChar(s, x.pos) = "]" THEN Return(x.pos + 1, ListVal(array))
    ELSE parse_array_from(s, x.pos, depth, array)

parse_array_value_end(s, depth, array, w) ==
    IF Raised(w) THEN w
    ELSE IF TryChar(s, w.pos) = "]" THEN Return(w.pos + 1, ListVal(array))
    ELSE IF TryChar(s, w.pos) # ","
    THEN RaiseAt(w.pos, TOMLDecodeError(suffix_coord(s, w.pos, <<"Unclosed array">>), <<>>))
    ELSE parse_array_comma(s, depth, array, skip_comments_and_array_ws(s, w.pos + 1))

parse_array_value(s, depth, array, v) ==
    IF Raised(v) THEN v
    ELSE parse_array_value_end(s, depth, Append(array, v.val),
                               skip_comments_and_array_ws(s, v.pos))

parse_array_from(s, p, depth, array) ==
    parse_array_value(s, depth, array, parse_value(s, p, depth + 1))

\* w is what skip_comments_and_array_ws left after the opening bracket.
parse_array_open(s, depth, w) ==
    IF Raised(w) THEN w
    ELSE IF TryChar(s, w.pos) = "]" THEN Return(w.pos + 1, ListVal(<<>>))
    ELSE parse_array_from(s, w.pos, depth, <<>>)

parse_array(s, p, depth) == parse_array_open(s, depth, skip_comments_and_array_ws(s, p + 1))

\* The loop of parse_inline_table, with nested_dict.dict and flags._flags:
\* kv is what parse_key_value_pair left, r the nest that get_or_create_nest
\* found for the key's parent, q state.pos after the pair and the whitespace.
parse_inline_table_pair_end(s, q, depth, dict, fl) ==
    IF TryChar(s, q) = "}" THEN Return(q + 1, DictVal(dict))
    ELSE IF TryChar(s, q) # ","
    THEN RaiseAt(q, TOMLDecodeError(suffix_coord(s, q, <<"Unclosed inline table">>), <<>>))
    ELSE parse_inline_table_from(s, skip_chars(s, q + 1, TOML_WS), depth, dict, fl)

\* parse_inline_table that marks no key of the inline table FROZEN.
parse_inline_table_nest_nothing_frozen(s, kv, depth, fl, r) ==
    IF r.exc = "KeyError"
    THEN RaiseAt(kv.pos, TOMLDecodeError(
             suffix_coord(s, kv.pos, <<"Can not overwrite a value">>), <<>>))
    ELSE IF r.exc # ""
    THEN RaiseAt(kv.pos, [type |-> r.exc, msg |-> <<>>, key |-> <<>>])
    ELSE IF kv.val.key[Len(kv.val.key)] \in DOMAIN Deref(r.cont, r.ref)
    THEN RaiseAt(kv.pos, TOMLDecodeError(
             suffix_coord(s, kv.pos, << "Duplicate inline table key", " ", "\"",
                                        "{key_stem}", "\"" >>),
             <<kv.val.key[Len(kv.val.key)]>>))
    ELSE parse_inline_table_pair_end(
             s, skip_chars(s, kv.pos, TOML_WS), depth,
             Store(r.cont, r.ref, kv.val.key[Len(kv.val.key)], kv.val.value),
             fl)

parse_inline_table_nest(s, kv, depth, fl, r) ==
    IF r.exc = "KeyError"
    THEN RaiseAt(kv.pos, TOMLDecodeError(
             suffix_coord(s, kv.pos, <<"Can not overwrite a value">>), <<>>))
    ELSE IF r.exc # ""
    THEN RaiseAt(kv.pos, [type |-> r.exc, msg |-> <<>>, key |-> <<>>])
    ELSE IF kv.val.key[Len(kv.val.key)] \in DOMAIN Deref(r.cont, r.ref)
    THEN RaiseAt(kv.pos, TOMLDecodeError(
             suffix_coord(s, kv.pos, << "Duplicate inline table key", " ", "\"",
                                        "{key_stem}", "\"" >>),
             <<kv.val.key[Len(kv.val.key)]>>))
    ELSE parse_inline_table_pair_end(
             s, skip_chars(s, kv.pos, TOML_WS), depth,
             Store(r.cont, r.ref, kv.val.key[Len(kv.val.key)], kv.val.value),
             IF kv.val.value.t \in {"dict", "list"}
             THEN Set(fl, kv.val.key, FROZEN, TRUE) ELSE fl)

parse_inline_table_pair(s, kv, depth, dict, fl) ==
    IF Raised(kv) THEN kv
    ELSE IF Is(fl, kv.val.key, FROZEN)
    THEN RaiseAt(kv.pos, TOMLDecodeError(
             suffix_coord(s, kv.pos, << "Can not mutate immutable namespace", " ",
                                        "{key}" >>), kv.val.key))
    ELSE parse_inline_table_nest(
             s, kv, depth, fl,
             GetOrCreateNestFrom(dict, SubSeq(kv.val.key, 1, Len(kv.val.key) - 1), FALSE))

parse_inline_table_from(s, p, depth, dict, fl) ==
    parse_inline_table_pair(s, parse_key_value_pair(s, p, depth + 1), depth, dict, fl)

\* q is state.pos after the opening brace and the whitespace.
parse_inline_table_open(s, q, depth) ==
    IF TryChar(s, q) = NoChar
    THEN RaiseAt(q, TOMLDecodeError(<<"Unclosed inline table">>, <<>>))
    ELSE IF TryChar(s, q) = "}" THEN Return(q + 1, DictVal(EmptyCont))
    ELSE parse_inline_table_from(s, q, depth, EmptyCont, EmptyCont)

parse_inline_table(s, p, depth) ==
    parse_inline_table_open(s, skip_chars(s, p + 1, TOML_WS), depth)

\* r is what a string parser left.
parse_value_str(r) == IF Raised(r) THEN r ELSE Return(r.pos, StrVal(r.val))

parse_value(s, p, depth) ==
    LET char == TryChar(s, p)
        date_match == RE_DATETIME(s, p)
        localtime_match == RE_LOCAL_TIME(s, p)
        second_char == TryChar(s, p + 1)
        tail == parse_regex(s, p + 2,
                            IF second_char = "x" THEN RE_HEX(s, p + 2)
                            ELSE IF second_char = "o" THEN RE_OCT(s, p + 2)
                            ELSE RE_BIN(s, p + 2))
        base == IF second_char = "x" THEN 16 ELSE IF second_char = "o" THEN 8 ELSE 2
        dec_match == RE_DEC_OR_FLOAT(s, p)
        first_three == Slice(s, p, p + 3)
        first_four == Slice(s, p, p + 4)
    IN IF depth > RecursionLimit THEN RaiseAt(p, RecursionError)
       ELSE IF char = "\"" THEN
           IF Slice(s, p + 1, p + 3) = <<"\"", "\"">>
           THEN parse_value_str(parse_multiline_str(s, p, FALSE))
           ELSE parse_value_str(parse_basic_str(s, p))
       ELSE IF char = "'" THEN
           IF Slice(s, p + 1, p + 3) = <<"'", "'">>
           THEN parse_value_str(parse_multiline_str(s, p, TRUE))
           ELSE parse_value_str(parse_literal_str(s, p))
       ELSE IF char = "t" /\ Slice(s, p + 1, p + 4) = <<"r", "u", "e">>
       THEN Return(p + 4, BoolVal(TRUE))
       ELSE IF char = "f" /\ Slice(s, p + 1, p + 5) = <<"a", "l", "s", "e">>
       THEN Return(p + 5, BoolVal(FALSE))
       ELSE IF date_match.end # -1 THEN parse_datetime(s, p, date_match)
       ELSE IF localtime_match.end # -1 THEN parse_localtime(s, localtime_match)
       ELSE IF char = "0" /\ second_char \in {"x", "o", "b"}
       THEN IF Raised(tail) THEN tail ELSE Return(tail.pos, IntVal(int(tail.val, base)))
       ELSE IF dec_match.end # -1 THEN parse_dec_or_float(s, p, dec_match)
       ELSE IF char = "[" THEN parse_array(s, p, depth)
       ELSE IF char = "{" THEN parse_inline_table(s, p, depth)
       ELSE IF first_three \in {<<"i", "n", "f">>, <<"n", "a", "n">>}
       THEN Return(p + 3, parse_float(first_three))
       ELSE IF first_four \in { <<"-", "i", "n", "f">>, <<"+", "i", "n", "f">>,
                                <<"-", "n", "a", "n">>, <<"+", "n", "a", "n">> }
       THEN Return(p + 4, parse_float(first_four))
       ELSE RaiseAt(p, TOMLDecodeError(suffix_coord(s, p, <<"Invalid value">>), <<>>))

\* --------------------------------------------------------- statement rules
\* The State of a parse, with what loads has come to: st.pos, st.out (the
\* dict of state.out), st.flags, st.header (state.header_namespace), st.doc
\* (the statements read), st.pc and st.err.
Fail(st, p, exc) == [st EXCEPT !.pos = p, !.pc = "raised", !.err = exc]

\* An exception of get_or_create_nest or append_nest_to_list: the rules catch
\* KeyError; any other leaves loads as it is.
NestError(s, p, exc) ==
    IF exc = "KeyError"
    THEN TOMLDecodeError(suffix_coord(s, p, <<"Can not overwrite a value">>), <<>>)
    ELSE [type |-> exc, msg |-> <<>>, key |-> <<>>]

\* k is what parse_key left, r the nest that get_or_create_nest found, st the
\* State with what the rule has done before.
create_dict_rule_nest(s, st, k, r) ==
    IF r.exc # ""
    THEN Fail([st EXCEPT !.out = r.cont], k.pos, NestError(s, k.pos, r.exc))
    ELSE IF TryChar(s, k.pos) # "]"
    THEN Fail([st EXCEPT !.out = r.cont, !.header = k.val], k.pos,
              TOMLDecodeError(
                  suffix_coord(s, k.pos,
                               <<"Expected \"]\" at the end of a table declaration">>),
                  <<>>))
    ELSE [st EXCEPT !.out = r.cont, !.header = k.val, !.pos = k.pos + 1]

create_dict_rule_key(s, st, k) ==
    IF Raised(k) THEN Fail(st, k.pos, k.exc)
    ELSE IF Is(st.flags, k.val, EXPLICIT_NEST) \/ Is(st.flags, k.val, FROZEN)
    THEN Fail([st EXCEPT !.doc = Append(st.doc, DictStmt(k.val))], k.pos,
              TOMLDecodeError(
                  suffix_coord(s, k.pos, << "Can not declare", " ", "{key}", " ", "twice" >>),
                  k.val))
    ELSE create_dict_rule_nest(
             s, [st EXCEPT !.doc = Append(st.doc, DictStmt(k.val)),
                           !.flags = Set(st.flags, k.val, EXPLICIT_NEST, FALSE)],
             k, GetOrCreateNest(st.out, k.val))

create_dict_rule(s, st) ==
    create_dict_rule_key(s, st, parse_key(s, skip_chars(s, st.pos + 1, TOML_WS)))

\* k is what parse_key left, r what append_nest_to_list left, st the State
\* with what the rule has done before.
create_list_rule_nest(s, st, k, r) ==
    IF r.exc # ""
    THEN Fail([st EXCEPT !.out = r.cont], k.pos, NestError(s, k.pos, r.exc))
    ELSE IF Slice(s, k.pos, k.pos + 2) # <<"]", "]">>
    THEN Fail([st EXCEPT !.out = r.cont, !.header = k.val], k.pos,
              TOMLDecodeError(
                  suffix_coord(s, k.pos,
                               << "Found", " ", "\"", Repr(Slice(s, k.pos, k.pos + 2)), "\"",
                                  " ", "at the end of an array declaration. Expected \"]]\"" >>),
                  <<>>))
    ELSE [st EXCEPT !.out = r.cont, !.header = k.val, !.pos = k.pos + 2]

create_list_rule_key(s, st, k) ==
    IF Raised(k) THEN Fail(st, k.pos, k.exc)
    ELSE IF Is(st.flags, k.val, FROZEN)
    THEN Fail([st EXCEPT !.doc = Append(st.doc, ListStmt(k.val))], k.pos,
              TOMLDecodeError(
                  suffix_coord(s, k.pos, << "Can not mutate immutable namespace", " ",
                                            "{key}" >>), k.val))
    ELSE create_list_rule_nest(
             s, [st EXCEPT !.doc = Append(st.doc, ListStmt(k.val)),
                           !.flags = Set(UnsetAll(st.flags, k.val), k.val,
                                         EXPLICIT_NEST, FALSE)],
             k, AppendNestToList(st.out, k.val))

create_list_rule(s, st) ==
    create_list_rule_key(s, st, parse_key(s, skip_chars(s, st.pos + 2, TOML_WS)))

\* key and value are the pair that parse_key_value_pair left, r the nest that
\* get_or_create_nest found for abs_key_parent, st the State with what the
\* rule has done before.
key_value_rule_nest(s, st, key, value, r) ==
    IF r.exc # ""
    THEN Fail([st EXCEPT !.out = r.cont], st.pos, NestError(s, st.pos, r.exc))
    ELSE IF key[Len(key)] \in DOMAIN Deref(r.cont, r.ref)
    THEN Fail([st EXCEPT !.out = r.cont], st.pos,
              TOMLDecodeError(
                  suffix_coord(s, st.pos, << "Can not define", " ", "{abs_key}", " ",
                                             "twice" >>), st.header \o key))
    ELSE [st EXCEPT !.flags = IF value.t \in {"dict", "list"}
                               THEN Set(st.flags, st.header \o key, FROZEN, TRUE)
                               ELSE st.flags,
                    !.out = Store(r.cont, r.ref, key[Len(key)], value)]

\* key_value_rule that does not look for FROZEN.
key_value_rule_pair_unchecked(s, st, key, value, abs_key_parent) ==
    key_value_rule_nest(
        s, [st EXCEPT !.flags = SetForRelativeKey(st.flags, st.header, key, EXPLICIT_NEST)],
        key, value, GetOrCreateNest(st.out, abs_key_parent))

key_value_rule_pair(s, st, key, value, abs_key_parent) ==
    IF Is(st.flags, abs_key_parent, FROZEN)
    THEN Fail(st, st.pos, TOMLDecodeError(
             suffix_coord(s, st.pos, << "Can not mutate immutable namespace", " ",
                                        "{abs_key_parent}" >>), abs_key_parent))
    ELSE key_value_rule_nest(
             s, [st EXCEPT !.flags = SetForRelativeKey(st.flags, st.header, key,
                                                       EXPLICIT_NEST)],
             key, value, GetOrCreateNest(st.out, abs_key_parent))

\* kv is what parse_key_value_pair left.
key_value_rule_parsed(s, st, kv) ==
    IF Raised(kv) THEN Fail(st, kv.pos, kv.exc)
    ELSE key_value_rule_pair(
             s, [st EXCEPT !.doc = Append(st.doc, KVStmt(kv.val.key, kv.val.value)),
                           !.pos = kv.pos],
             kv.val.key, kv.val.value,
             st.header \o SubSeq(kv.val.key, 1, Len(kv.val.key) - 1))

key_value_rule(s, st) == key_value_rule_parsed(s, st, parse_key_value_pair(s, st.pos, 0))

\* comment_rule as a statement; r is what comment_rule left.
comment_statement_end(st, r) ==
    IF Raised(r) THEN Fail(st, r.pos, r.exc) ELSE [st EXCEPT !.pos = r.pos]

comment_statement(s, st) == comment_statement_end(st, comment_rule(s, st.pos))

\* ------------------------------------------------------------------- loads
\* end_of_statement_char that goes on with whatever follows the statement.
end_of_statement_char_lenient(s, st, c) ==
    IF Raised(c) THEN Fail(st, c.pos, c.exc)
    ELSE IF TryChar(s, c.pos) = NoChar THEN [st EXCEPT !.pos = c.pos, !.pc = "returned"]
    ELSE IF TryChar(s, c.pos) = "\n" THEN [st EXCEPT !.pos = c.pos + 1]
    ELSE [st EXCEPT !.pos = c.pos]

\* Steps 3 and 4 of the statement loop, after a rule that did not raise; c is
\* what skip_comment left.
end_of_statement_char(s, st, c) ==
    IF Raised(c) THEN Fail(st, c.pos, c.exc)
    ELSE IF TryChar(s, c.pos) = NoChar THEN [st EXCEPT !.pos = c.pos, !.pc = "returned"]
    ELSE IF TryChar(s, c.pos) = "\n" THEN [st EXCEPT !.pos = c.pos + 1]
    ELSE Fail(st, c.pos, TOMLDecodeError(
             suffix_coord(s, c.pos,
                          <<"Expected newline or end of document after a statement">>),
             <<>>))

end_of_statement(s, st) ==
    end_of_statement_char(s, st, skip_comment(s, skip_chars(s, st.pos, TOML_WS)))

\* st is the State that the statement's rule left.
after_rule(s, st) == IF st.pc = "raised" THEN st ELSE end_of_statement(s, st)

\* What step 2 of the loop finds after the line's leading whitespace.
Dispatch(s, p) ==
    LET q == skip_chars(s, p, TOML_WS)
        char == TryChar(s, q)
    IN IF char = NoChar THEN "break"
       ELSE IF char = "\n" THEN "continue"
       ELSE IF char = "#" THEN "comment_rule"
       ELSE IF char \in BARE_KEY_CHARS \cup {"\"", "'"} THEN "key_value_rule"
       ELSE IF Slice(s, q, q + 2) = <<"[", "[">> THEN "create_list_rule"
       ELSE IF char = "[" THEN "create_dict_rule"
       ELSE "Invalid statement"

\* One iteration of the statement loop.
\* loads_iteration_rule that leaves the newline of an empty line unread.
loads_iteration_rule_keeping_newline(s, st, q, rule) ==
    IF rule = "break" THEN [st EXCEPT !.pos = q, !.pc = "returned"]
    ELSE IF rule = "continue" THEN [st EXCEPT !.pos = q]
    ELSE IF rule = "comment_rule" THEN after_rule(s, comment_statement(s, [st EXCEPT !.pos = q]))
    ELSE IF rule = "key_value_rule" THEN after_rule(s, key_value_rule(s, [st EXCEPT !.pos = q]))
    ELSE IF rule = "create_list_rule"
    THEN after_rule(s, create_list_rule(s, [st EXCEPT !.pos = q]))
    ELSE IF rule = "create_dict_rule"
    THEN after_rule(s, create_dict_rule(s, [st EXCEPT !.pos = q]))
    ELSE Fail(st, q, TOMLDecodeError(suffix_coord(s, q, <<"Invalid statement">>), <<>>))

loads_iteration_rule(s, st, q, rule) ==
    IF rule = "break" THEN [st EXCEPT !.pos = q, !.pc = "returned"]
    ELSE IF rule = "continue" THEN [st EXCEPT !.pos = q + 1]
    ELSE IF rule = "comment_rule" THEN after_rule(s, comment_statement(s, [st EXCEPT !.pos = q]))
    ELSE IF rule = "key_value_rule" THEN after_rule(s, key_value_rule(s, [st EXCEPT !.pos = q]))
    ELSE IF rule = "create_list_rule"
    THEN after_rule(s, create_list_rule(s, [st EXCEPT !.pos = q]))
    ELSE IF rule = "create_dict_rule"
    THEN after_rule(s, create_dict_rule(s, [st EXCEPT !.pos = q]))
    ELSE Fail(st, q, TOMLDecodeError(suffix_coord(s, q, <<"Invalid statement">>), <<>>))

loads_iteration(s, st) ==
    loads_iteration_rule(s, st, skip_chars(s, st.pos, TOML_WS), Dispatch(s, st.pos))

\* State(s, parse_float).
NewState ==
    [pos |-> 0, out |-> EmptyCont, flags |-> EmptyCont, header |-> <<>>, doc |-> <<>>,
     pc |-> "parsing", err |-> NoErr]

RECURSIVE loads_from(_, _)
loads_from(s, st) ==
    IF st.pc # "parsing" THEN st ELSE loads_from(s, loads_iteration(s, st))

TypeError == [type |-> "TypeError", msg |-> <<>>, key |-> <<>>]

\* loads(text) for text of the type str or bytes: the state it ends in.
loads(type, text) ==
    IF type # "str" THEN Fail(NewState, 0, TypeError)
    ELSE loads_from(Replace(text), NewState)

\* fp.read() for a file opened in the mode "rb" or "r": bytes or str.
Read(mode, content) == [type |-> IF mode = "rb" THEN "bytes" ELSE "str", text |-> content]

load(mode, content) == loads(Read(mode, content).type, Read(mode, content).text)

\* --------------------------------------------------------------- the calls
\* Longest text of the exhaustive family, longest body of the newline family.
MaxSrcLen == 4
MaxBodyLen == 3

\* The texts of at most n characters of the set A.
RECURSIVE TextsOver(_, _)
TextsOver(A, n) ==
    IF n = 0 THEN { <<>> }
    ELSE LET shorter == TextsOver(A, n - 1)
         IN shorter \cup { Append(t, c) : t \in { x \in shorter : Len(x) = n - 1 }, c \in A }

\* Every short text of the characters that steer the statement loop.
ShortTexts == TextsOver({"a", "=", "1", ".", "\n", "#", "[", "]"}, MaxSrcLen)

\* Carriage returns and newlines where the parser meets them: in the four
\* kinds of string, in a comment, after a value and in an array, before its
\* value and in a comment after it.
NewlineTexts ==
    { ctx[1] \o body \o ctx[2] :
          body \in TextsOver({"\r", "\n", "x"}, MaxBodyLen),
          ctx \in { << <<"a", "=", "\"", "\"", "\"">>, <<"\"", "\"", "\"">> >>,
                    << <<"a", "=", "'", "'", "'">>, <<"'", "'", "'">> >>,
                    << <<"a", "=", "\"">>, <<"\"">> >>,
                    << <<"a", "=", "'">>, <<"'">> >>,
                    << <<"#">>, <<>> >>,
                    << <<"a", "=", "1">>, <<"b", "=", "1">> >>,
                    << <<"a", "=", "[">>, <<"1", "]">> >>,
                    << <<"a", "=", "[", "1", "#">>, <<"\n", "]">> >> } }

\* Dates: a = YYYY-MM-DD, with a time or without.
DateTexts ==
    { <<"a", "=">> \o y \o <<"-">> \o m \o <<"-">> \o d \o t :
          y \in { <<"2", "0", "2", "0">>, <<"2", "0", "2", "1">>, <<"0", "0", "0", "0">> },
          m \in { <<"0", "2">>, <<"0", "4">>, <<"1", "2">>, <<"1", "3">> },
          d \in { <<"2", "8">>, <<"2", "9">>, <<"3", "0">>, <<"3", "1">>, <<"3", "2">> },
          t \in { <<>>, <<"T", "0", "7", ":", "3", "2", ":", "0", "0">>,
                  <<" ", "0", "7", ":", "3", "2", ":", "0", "0", "Z">> } }

\* Numbers: a = sign, integer part, fraction, exponent; and the special floats.
NumberTexts ==
    { <<"a", "=">> \o sign \o int_part \o frac \o exp :
          sign \in { <<>>, <<"+">>, <<"-">> },
          int_part \in { <<"0">>, <<"1">>, <<"1", "_", "0">>, <<"0", "1">> },
          frac \in { <<>>, <<".", "5">>, <<".">> },
          exp \in { <<>>, <<"e", "1">>, <<"E", "-", "1", "_", "0">>, <<"e">> } }
    \cup { <<"a", "=">> \o sign \o name :
               sign \in { <<>>, <<"+">>, <<"-">> },
               name \in { <<"i", "n", "f">>, <<"n", "a", "n">> } }

\* n times the text t.
RECURSIVE Times(_, _)
Times(n, t) == IF n = 0 THEN <<>> ELSE t \o Times(n - 1, t)

\* Arrays and inline tables nested up to one deeper than the recursion limit.
NestedTexts ==
    UNION { { <<"a", "=">> \o Times(n, <<"[">>) \o <<"1">> \o Times(n, <<"]">>),
              <<"a", "=">> \o Times(n, <<"{", "a", "=">>) \o <<"1">> \o Times(n, <<"}">>),
              <<"a", "=">> \o Times(n, <<"[">>),
              <<"a", "=">> \o Times(n, <<"{", "a", "=">>) \o <<"{">> }
            : n \in 0..(RecursionLimit + 1) }

\* Longest body of a multi-line string of the quote family.
MaxQuotedLen == 6

\* Multi-line strings of quotes, backslashes and a letter: a = """...  and
\* a = '''...
QuoteTexts ==
    UNION { { <<"a", "=", d, d, d>> \o body : body \in TextsOver({d, "x", "\\"}, MaxQuotedLen) }
            : d \in {"\"", "'"} }

\* Longest body of a basic string of the backslash family.
MaxEscapedLen == 4

\* Basic strings of backslashes, spaces, tabs, newlines and a letter:
\* a = """...""" and a = "...".
BackslashTexts ==
    { <<"a", "=">> \o q \o body \o q :
          q \in { <<"\"", "\"", "\"">>, <<"\"">> },
          body \in TextsOver({"\\", " ", "\t", "\n", "x"}, MaxEscapedLen) }

\* Most digits of a fraction of a second of the fraction family.
MaxFracLen == 7

\* Times and date-times with a fraction of a second, or none:
\* a = 00:32:00.ddd and a = 1979-05-27T00:32:00.ddd; and the fraction of the
\* test (src/tests/test_parsers.py).
FractionTexts ==
    { <<"a", "=">> \o d \o <<"0", "0", ":", "3", "2", ":", "0", "0">> \o frac :
          d \in { <<>>, <<"1", "9", "7", "9", "-", "0", "5", "-", "2", "7", "T">> },
          frac \in {<<>>} \cup { <<".">> \o digits :
                                   digits \in TextsOver({"0", "5", "9"}, MaxFracLen) \ {<<>>} }
                       \cup { <<".", "9", "9", "9", "9", "9", "9", "9", "9", "9">> } }

\* Date-times with an offset, with Z or z, and with neither:
\* a = 1979-05-27T00:32:00+01:30, the date and the time parted by T, t or a
\* space.
OffsetTexts ==
    { <<"a", "=", "1", "9", "7", "9", "-", "0", "5", "-", "2", "7">> \o sep
          \o <<"0", "0", ":", "3", "2", ":", "0", "0">> \o offset :
          sep \in { <<"T">>, <<"t">>, <<" ">> },
          offset \in { <<>>, <<"Z">>, <<"z">> }
                     \cup { sign \o hh \o <<":">> \o mm :
                                sign \in { <<"+">>, <<"-">> },
                                hh \in { <<"0", "0">>, <<"0", "1">>, <<"2", "3">> },
                                mm \in { <<"0", "0">>, <<"3", "0">>, <<"5", "9">> } } }

\* Most pairs of an inline table of the inline table family.
MaxPairs == 2

\* The pairs of an inline table: a key of the parts given (each one letter)
\* and a value with its text.
InlinePairs ==
    { [key |-> k, text |-> v[1], value |-> v[2]] :
          k \in { <<"a">>, <<"b">>, <<"a", "b">>, <<"a", "c">> },
          v \in { << <<"1">>, IntVal(1) >>,
                  << <<"{", "b", "=", "1", "}">>, DictVal(Put(EmptyCont, <<"b">>, IntVal(1))) >>,
                  << <<"[", "1", "]">>, ListVal(<<IntVal(1)>>) >> } }

\* The inline tables of one pair up to MaxPairs pairs, at the root and
\* under the header [a].
InlineCases ==
    { [header |-> h, pairs |-> pairs] :
          h \in { <<>>, << <<"a">> >> },
          pairs \in TextsOver(InlinePairs, MaxPairs) \ {<<>>} }

\* k1.k2 = text
PairText(pair) ==
    (IF Len(pair.key) = 1 THEN pair.key ELSE <<pair.key[1], ".", pair.key[2]>>)
        \o <<"=">> \o pair.text

RECURSIVE PairsText(_)
PairsText(pairs) ==
    IF Len(pairs) = 1 THEN PairText(pairs[1])
    ELSE PairText(pairs[1]) \o <<",">> \o PairsText(Tail(pairs))

\* t = {pair, pair}, after the line [a] where the case has that header.
InlineText(case) ==
    (IF case.header = <<>> THEN <<>> ELSE <<"[", "a", "]", "\n">>)
        \o <<"t", "=", "{">> \o PairsText(case.pairs) \o <<"}">>

InlineTexts == { InlineText(case) : case \in InlineCases }

\* Most lines of a document of the statement family.
MaxLines == 4

\* The lines of the statement family: headers of tables and of arrays of
\* tables, inline arrays and a dotted key.
StatementLines ==
    { <<"[", "[", "a", "]", "]">>,
      <<"[", "a", ".", "b", "]">>,
      <<"[", "[", "a", ".", "b", "]", "]">>,
      <<"a", "=", "[", "1", "]">>,
      <<"b", "=", "[", "]">>,
      <<"a", ".", "b", "=", "1">> }

\* The lines, each but the last ended by a newline.
RECURSIVE Joined(_)
Joined(lines) ==
    IF Len(lines) = 1 THEN lines[1] ELSE lines[1] \o <<"\n">> \o Joined(Tail(lines))

\* The documents of one line up to MaxLines lines.
StatementTexts == { Joined(lines) : lines \in TextsOver(StatementLines, MaxLines) \ {<<>>} }

\* The documents of the tests (src/tests/test_error.py, test_misc.py).
TestTexts ==
    { <<"v", "a", "l", "=", ".">>,
      <<".">>,
      <<"\n", "\n", "v", "a", "l", "=", ".">>,
      <<"\n", "\n", ".">>,
      <<"\n", "\n", "f", "w", "f", "w", "=">>,
      <<"v", " ", "=", " ", "'", "\n", "'">>,
      <<"o", "n", "e", "=", "1">>,
      <<"o", "n", "e", "=", "1", " ", "\n", " ", "t", "w", "o", "=", "'", "t", "w", "o", "'",
        " ", "\n", " ", "a", "r", "r", "=", "[", "]">>,
      <<"[", "[", "a", "]", "]", "\n", "a", "=", "{", "b", "=", "1", ",", " ", "c", ".", "d",
        "=", "[", "t", "r", "u", "e", "]", "}", " ", "#", "x">>,
      <<"a", "=", "{", " ">>,
      <<"a", "=", "{", "b", "=", "1">>,
      <<"a", " ", "=", " ", "1", " ", "#", " ", "NUL">> }

Texts == ShortTexts \cup NewlineTexts \cup DateTexts \cup NumberTexts \cup NestedTexts
             \cup QuoteTexts \cup BackslashTexts \cup FractionTexts
             \cup OffsetTexts \cup InlineTexts \cup StatementTexts
             \cup TestTexts

\* loads(s) for every text, load(fp) for the tests' documents in a file opened
\* in binary and in text mode.
Calls ==
    { [fn |-> "loads", mode |-> "str", text |-> t] : t \in Texts }
    \cup { [fn |-> "load", mode |-> m, text |-> t] : m \in {"rb", "r"}, t \in TestTexts }

\* ------------------------------------------------------- the text machine
\* The State that the variables hold.
StateNow ==
    [pos |-> pos, out |-> out, flags |-> flags, header |-> header, doc |-> doc,
     pc |-> pc, err |-> err]

Becomes(st) ==
    /\ pos' = st.pos
    /\ out' = st.out
    /\ flags' = st.flags
    /\ header' = st.header
    /\ doc' = st.doc
    /\ pc' = st.pc
    /\ err' = st.err

\* The caller calls load or loads.
Call ==
    /\ pc = "idle"
    /\ arg' \in Calls
    /\ pc' = "called"
    /\ UNCHANGED <<out, flags, header, doc, err, src, pos>>

\* load(fp): s = fp.read(), then loads(s).  arg.fn stays the function that
\* was called; arg.mode, the mode of the file, becomes the type of s.
Load ==
    /\ pc = "called"
    /\ arg.fn = "load"
    /\ arg.mode \in {"rb", "r"}
    /\ arg' = [arg EXCEPT !.mode = Read(arg.mode, arg.text).type,
                          !.text = Read(arg.mode, arg.text).text]
    /\ UNCHANGED <<out, flags, header, doc, pc, err, src, pos>>

\* loads(s) up to the statement loop: s.replace, which a str has for str
\* arguments and bytes has not, and State(s, parse_float).
Loads ==
    /\ pc = "called"
    /\ arg.mode \in {"bytes", "str"}
    /\ IF arg.mode # "str"
       THEN /\ Becomes(Fail(NewState, 0, TypeError))
            /\ UNCHANGED <<arg, src>>
       ELSE /\ src' = Replace(arg.text)
            /\ Becomes(NewState)
            /\ UNCHANGED arg

\* One iteration of the statement loop.
Iterate ==
    /\ pc = "parsing"
    /\ Becomes(loads_iteration(src, StateNow))
    /\ UNCHANGED <<arg, src>>

\* The iterations, by what the loop finds at the cursor.
EndOfInput ==
    /\ Dispatch(src, pos) = "break"
    /\ Iterate

EndOfLine ==
    /\ Dispatch(src, pos) = "continue"
    /\ Iterate

CommentStatement ==
    /\ Dispatch(src, pos) = "comment_rule"
    /\ Iterate

KeyValueStatement ==
    /\ Dispatch(src, pos) = "key_value_rule"
    /\ Iterate

CreateListStatement ==
    /\ Dispatch(src, pos) = "create_list_rule"
    /\ Iterate

CreateDictStatement ==
    /\ Dispatch(src, pos) = "create_dict_rule"
    /\ Iterate

InvalidStatement ==
    /\ Dispatch(src, pos) = "Invalid statement"
    /\ Iterate

\* No call yet.
TextInit ==
    /\ arg = NoArg
    /\ pc = "idle"
    /\ src = <<>>
    /\ pos = 0
    /\ out = EmptyCont
    /\ flags = EmptyCont
    /\ header = <<>>
    /\ doc = <<>>
    /\ err = NoErr

TextNext ==
    \/ Call
    \/ Load
    \/ Loads
    \/ EndOfInput
    \/ EndOfLine
    \/ CommentStatement
    \/ KeyValueStatement
    \/ CreateListStatement
    \/ CreateDictStatement
    \/ InvalidStatement

TextSpec == TextInit /\ [][TextNext]_vars

\* --------------------------------------------------------------------- C11
\* C11: parsing a text gives what parsing the text with every "\r\n"
\* replaced by "\n" gives, whenever both succeed, a carriage return right
\* before a "\r\n" (as in a multi-line basic string) included.
C11_CrLfReadAsLf ==
    (/\ pc = "returned"
     /\ loads("str", Replace(arg.text)).pc = "returned")
        => out = loads("str", Replace(arg.text)).out

\* --------------------------------------------------------------------- C12
\* C12: a text that loads rejects is rejected with a TOMLDecodeError; the
\* date 2021-02-30, which no calendar has, is.  (Nesting beyond the recursion
\* limit, which C17 is about, is left out here.)
C12_RejectedWithTOMLDecodeError ==
    (pc = "raised" /\ arg.mode = "str" /\ err.type # "RecursionError")
        => err.type = "TOMLDecodeError"

\* --------------------------------------------------------------------- C13
\* The coordinate that ends a message: the part between " (at " and ")".
HasCoordinate(msg) ==
    /\ Len(msg) >= 3
    /\ msg[Len(msg) - 2] = " (at "
    /\ msg[Len(msg)] = ")"

Coordinate(msg) == msg[Len(msg) - 1]

\* The line and the column of the character at p, counted character by
\* character from the start of the text.
RECURSIVE LineOf(_, _)
LineOf(s, p) ==
    IF p = 0 THEN 1
    ELSE LineOf(s, p - 1) + (IF s[p] = "\n" THEN 1 ELSE 0)

RECURSIVE ColumnOf(_, _)
ColumnOf(s, p) ==
    IF p = 0 \/ s[p] = "\n" THEN 1 ELSE ColumnOf(s, p - 1) + 1

\* loads of the text, a str, ends rejecting it with the coordinate coord.
RejectedAt(text, coord) ==
    (arg.text = text /\ arg.mode = "str" /\ pc \notin {"called", "parsing"})
        => /\ pc = "raised"
           /\ HasCoordinate(err.msg)
           /\ Coordinate(err.msg) = coord

\* C13: the coordinate of an error is that of the cursor where it was
\* raised: the line is one more than the newlines before the cursor, the
\* column counts from 1 on the line, and a cursor at the end of the text is
\* "end of document".  "val=." fails at line 1, column 5, "\n\n." at line 3,
\* column 1 and "\n\nfwfw=" at the end of the document.
C13_CoordinatesOfTheCursor ==
    /\ (pc = "raised" /\ err.type = "TOMLDecodeError" /\ HasCoordinate(err.msg))
           => Coordinate(err.msg) =
                  IF pos >= Len(src) THEN "end of document"
                  ELSE "line " \o ToString(LineOf(src, pos))
                           \o ", column " \o ToString(ColumnOf(src, pos))
    /\ RejectedAt(<<"v", "a", "l", "=", ".">>, "line 1, column 5")
    /\ RejectedAt(<<"\n", "\n", ".">>, "line 3, column 1")
    /\ RejectedAt(<<"\n", "\n", "f", "w", "f", "w", "=">>, "end of document")

C13_Witness ==
    /\ pc = "raised"
    /\ arg.text = <<"\n", "\n", "v", "a", "l", "=", ".">>
    /\ pos = 6
    /\ Coordinate(err.msg) = "line 3, column 5"

\* --------------------------------------------------------------------- C14
\* C14: the message of every TOMLDecodeError, on every path that raises one
\* (an inline table left open at the end of the text included), ends with
\* " (at line L, column C)" or " (at end of document)".
C14_EveryMessageHasCoordinates ==
    (pc = "raised" /\ err.type = "TOMLDecodeError") => HasCoordinate(err.msg)

\* --------------------------------------------------------------------- C15
\* The literal of the text a=<literal>, and the value of a that loads returns.
LiteralOf(text) == SubSeq(text, 3, Len(text))

ValueOfA == Lookup(out, << <<"a">> >>)

\* inf and nan with or without a sign.
SpecialFloats ==
    { sign \o name : sign \in { <<>>, <<"+">>, <<"-">> },
                     name \in { <<"i", "n", "f">>, <<"n", "a", "n">> } }

IsFloatLiteral(lit) == Range(lit) \cap {".", "e", "E"} # {} \/ lit \in SpecialFloats

\* C15: the value of a float literal (one with a fraction, an exponent or
\* both, or inf, +inf, -inf, nan, +nan, -nan) is what parse_float returns for
\* exactly the text of the literal, unchanged; a literal without ".", "e" and
\* "E" is an integer, which parse_float never sees.
C15_FloatsGoThroughParseFloat ==
    (pc = "returned" /\ arg.text \in NumberTexts)
        => IF IsFloatLiteral(LiteralOf(arg.text))
           THEN ValueOfA = parse_float(LiteralOf(arg.text))
           ELSE ValueOfA = IntVal(ValueOfA.v) /\ ValueOfA.v \in Int

C15_Witness ==
    /\ pc = "returned"
    /\ arg.text = <<"a", "=", "-", "1", "_", "0", ".", "5", "E", "-", "1", "_", "0">>
    /\ ValueOfA = parse_float(<<"-", "1", "_", "0", ".", "5", "E", "-", "1", "_", "0">>)

\* --------------------------------------------------------------------- C16
\* C16: load takes a file opened in binary mode, and a file opened in text
\* mode it rejects with a TypeError.
C16_LoadWantsBinaryMode ==
    (arg.fn = "load" /\ pc \in {"returned", "raised"})
        => IF arg.mode = "bytes"
           THEN err.type # "TypeError"
           ELSE pc = "raised" /\ err.type = "TypeError"

\* --------------------------------------------------------------------- C17
\* a = [[..[1]..]] and a = {a={a=..1..}}, nested one deeper than the limit.
DeeplyNestedTexts ==
    { <<"a", "=">> \o Times(RecursionLimit + 1, <<"[">>) \o <<"1">>
          \o Times(RecursionLimit + 1, <<"]">>),
      <<"a", "=">> \o Times(RecursionLimit + 1, <<"{", "a", "=">>) \o <<"1">>
          \o Times(RecursionLimit + 1, <<"}">>) }

\* C17: nesting of arrays and inline tables is bounded by a recursion cap: a
\* text that nests them deeper is rejected with a TOMLDecodeError and with
\* no other failure.
C17_DeepNestingIsADecodeError ==
    (arg.text \in DeeplyNestedTexts /\ pc \notin {"called", "parsing"})
        => pc = "raised" /\ err.type = "TOMLDecodeError"

\* --------------------------------------------------------------------- C18
\* C18: where a single-line literal string, or another place that forbids
\* control characters, holds an illegal character, the message of the error
\* holds the repr of the character with a space before it and a space after
\* it: for v = '\n' it holds  '\n'  between two spaces.
C18_InvalidCharacterBetweenSpaces ==
    (/\ pc = "raised"
     /\ err.type = "TOMLDecodeError"
     /\ err.msg[1] \in {"Found invalid character", "Illegal character"})
        => \E i \in 2..(Len(err.msg) - 1) :
               /\ err.msg[i] = Repr(<<TryChar(src, pos)>>)
               /\ err.msg[i - 1] = " "
               /\ err.msg[i + 1] \in {" ", " (at "}

\* --------------------------------------------------------------------- C19
\* The table new holds all that the table old held: every key of old, a scalar
\* as it was, a table grown, an array with every element it had, the elements
\* before its last one as they were and the last one grown.
RECURSIVE Grown(_, _)
Grown(old, new) ==
    \A k \in DOMAIN old :
        /\ k \in DOMAIN new
        /\ LET o == old[k]
               n == new[k]
           IN IF o.t = "dict" THEN n.t = "dict" /\ Grown(o.v, n.v)
              ELSE IF o.t = "list" THEN
                  /\ n.t = "list"
                  /\ Len(n.v) >= Len(o.v)
                  /\ \A i \in 1..Len(o.v) :
                         IF i < Len(n.v) \/ o.v[i].t # "dict" THEN n.v[i] = o.v[i]
                         ELSE n.v[i].t = "dict" /\ Grown(o.v[i].v, n.v[i].v)
              ELSE n = o

\* The statement read in this step opened a new element of the array at a
\* proper prefix of path p.
NewElementAbove(p) ==
    /\ pc' # "raised"
    /\ \E r \in Keys : IsProperPrefix(r, p) /\ doc' = Append(doc, ListStmt(r))

\* C19: in every step of a parse the tree only grows: no key leaves a table,
\* no scalar is replaced, no element leaves an array of tables, and an inline
\* value (a FROZEN path) stays as it was bound: it is found unchanged at its
\* path until a new array element is opened above it, and then it stays in
\* the element it was bound in.
C19_TreeOnlyGrows ==
    [][/\ Grown(out, out')
       /\ \A p \in Paths :
              (Is(flags, p, FROZEN) /\ Lookup(out, p) # Missing)
                  => (Lookup(out', p) = Lookup(out, p) \/ NewElementAbove(p))]_vars

\* Three statements were accepted after which the tree holds an array of two
\* tables, the first of them with an inline value.
C19_Witness ==
    /\ Len(doc) = 3
    /\ pc = "returned"
    /\ Lookup(out, <<"a">>).t = "list"
    /\ Len(Lookup(out, <<"a">>).v) = 2
    /\ Lookup(out, <<"a">>).v[1] = DictVal(Put(EmptyCont, "b", ListVal(<<>>)))

\* --------------------------------------------------------------------- C20
\* One pass of skip_comments_and_array_ws, and n passes from p.
OnePass(s, p) == skip_comment(s, skip_chars(s, p, TOML_WS_AND_NEWLINE))

RECURSIVE PassesFrom(_, _, _)
PassesFrom(s, p, n) ==
    IF n = 0 THEN p ELSE OnePass(s, PassesFrom(s, p, n - 1)).pos

\* From every place of the text skip_comments_and_array_ws, where it does not
\* raise, ends with the first pass that leaves the cursor where it was, all
\* passes before having moved it on.
ArrayWsStops ==
    \A p \in 0..Len(src) :
        LET r == skip_comments_and_array_ws(src, p)
        IN Raised(r) \/
           \E n \in 0..(Len(src) - p) :
               /\ r.pos = PassesFrom(src, p, n)
               /\ OnePass(src, r.pos).pos = r.pos
               /\ \A j \in 0..(n - 1) : PassesFrom(src, p, j) < PassesFrom(src, p, j + 1)

\* An iteration of the statement loop ends loads or moves the cursor on.
StopsOrAdvances ==
    pc = "parsing" =>
        \/ pc' \in {"returned", "raised"}
        \/ pc' = "parsing" /\ pos' > pos

\* st is the State that the next iteration leaves.
IterationStopsOrAdvances(st) ==
    \/ st.pc \in {"returned", "raised"}
    \/ st.pc = "parsing" /\ st.pos > pos

\* C20: loads ends for every text, returning or raising: the cursor never
\* passes the end of the text and each iteration of the statement loop stops
\* or moves it strictly on, so that a text of n characters takes n + 1
\* iterations at most; and the loop of skip_comments_and_array_ws stops with
\* the first pass that makes no progress.
C20_LoadsTerminates ==
    /\ [](pc = "parsing" =>
              /\ pos \in 0..Len(src)
              /\ IterationStopsOrAdvances(loads_iteration(src, StateNow))
              /\ ArrayWsStops)
    /\ [][StopsOrAdvances]_vars

C20_Witness ==
    /\ pc = "returned"
    /\ arg.text = <<"a", "=", "[", "1", "#", "x", "\n", "\n", "\n", "]">>
    /\ pos = Len(src)
    /\ ValueOfA = ListVal(<<IntVal(1)>>)

\* --------------------------------------------------------------------- C21
StatementRules == {"comment_rule", "key_value_rule", "create_list_rule", "create_dict_rule"}

\* The State that the rule of the statement at the cursor leaves, before the
\* end of the statement is looked for.
RuleLeaves ==
    LET st == [StateNow EXCEPT !.pos = skip_chars(src, pos, TOML_WS)]
        rule == Dispatch(src, pos)
    IN IF rule = "comment_rule" THEN comment_statement(src, st)
       ELSE IF rule = "key_value_rule" THEN key_value_rule(src, st)
       ELSE IF rule = "create_list_rule" THEN create_list_rule(src, st)
       ELSE create_dict_rule(src, st)

\* The end of the line of the character at p: the next newline, or the end
\* of the text.
RECURSIVE EndOfLineFrom(_, _)
EndOfLineFrom(s, p) ==
    IF p >= Len(s) \/ s[p + 1] = "\n" THEN p ELSE EndOfLineFrom(s, p + 1)

\* The statement's rule left the cursor at p; q is the first character after
\* the inline whitespace there and e the end of its line.
StatementEndsAt(p, q, e) ==
    IF TryChar(src, q) = "#" /\ \E i \in (q + 2)..e : src[i] \in ILLEGAL_COMMENT_CHARS
    THEN /\ pc' = "raised"
         /\ err'.msg[1] = "Found invalid character"
    ELSE IF TryChar(src, q) \in {NoChar, "\n", "#"}
    THEN IF e = Len(src)
         THEN pc' = "returned" /\ pos' = e
         ELSE pc' = "parsing" /\ pos' = e + 1 /\ src[pos'] = "\n"
    ELSE /\ pc' = "raised"
         /\ pos' = q
         /\ err'.type = "TOMLDecodeError"
         /\ err'.msg[1] = "Expected newline or end of document after a statement"

\* C21: after the rule of a statement only inline whitespace and one comment
\* may come before the next newline or the end of the text: the loop then
\* goes on right after that newline or returns; any other character there
\* fails with "Expected newline or end of document after a statement".
C21_OneStatementALine ==
    [][(pc = "parsing" /\ Dispatch(src, pos) \in StatementRules
            /\ RuleLeaves.pc = "parsing")
           => StatementEndsAt(RuleLeaves.pos,
                              skip_chars(src, RuleLeaves.pos, TOML_WS),
                              EndOfLineFrom(src, skip_chars(src, RuleLeaves.pos, TOML_WS)))]_vars

\* "a=1b=1" is rejected at the b.
C21_Witness ==
    /\ pc = "raised"
    /\ arg.text = <<"a", "=", "1", "b", "=", "1">>
    /\ pos = 3
    /\ err.msg[1] = "Expected newline or end of document after a statement"
    /\ Len(doc) = 1

\* --------------------------------------------------------------------- C22
\* The statement that the step consumed.
Consumed == doc'[Len(doc')]

\* A step that changes the header namespace is a header that succeeded, and
\* the namespace becomes its key.
OnlyHeadersSetHeader ==
    header' # header =>
        /\ Len(doc') = Len(doc) + 1
        /\ IsHeader(Consumed)
        /\ pc' = "parsing"
        /\ header' = Consumed.key

\* A key/value leaves the header namespace as it is, and when it is accepted
\* its value is what the tree has at header + key.
KVStoredUnderHeader ==
    (Len(doc') = Len(doc) + 1 /\ IsKV(Consumed)) =>
        /\ header' = header
        /\ pc' = "parsing" => Lookup(out', header \o Consumed.key) = Consumed.value

\* C22: the header namespace is the key of the last header read, the root
\* before any; only a header that succeeds changes it; a key/value never
\* changes it and stores its value at header + key.
C22_KeyValueUnderLastHeader ==
    /\ [](pc # "raised" => header = HeaderBefore(Len(doc) + 1))
    /\ [][OnlyHeadersSetHeader /\ KVStoredUnderHeader]_vars

\* [a] / b.a = 1 / [[b]] / a = 1
C22_Witness ==
    /\ pc = "parsing"
    /\ doc = << DictStmt(<<"a">>), KVStmt(<<"b", "a">>, IntVal(1)),
                ListStmt(<<"b">>), KVStmt(<<"a">>, IntVal(1)) >>
    /\ header = <<"b">>
    /\ Lookup(out, <<"a", "b", "a">>) = IntVal(1)
    /\ Lookup(out, <<"b", "a">>) = IntVal(1)

\* --------------------------------------------------------------------- C23
\* The number of delimiters d in a row from character i on (counted from 1).
RECURSIVE RunLength(_, _, _)
RunLength(body, i, d) ==
    IF i > Len(body) \/ body[i] # d THEN 0 ELSE 1 + RunLength(body, i + 1, d)

Min(m, n) == IF m < n THEN m ELSE n

\* What the claim makes of a multi-line string's text after the opening
\* delimiter, read from character i on with the content acc before it: the
\* first run of three delimiters or more that no escape consumes closes the
\* string, shorter runs are content.
RECURSIVE Closing(_, _, _, _, _)
Closing(body, i, d, escapes, acc) ==
    IF i > Len(body) THEN [kind |-> "Unterminated string", val |-> acc, used |-> i - 1]
    ELSE IF escapes /\ body[i] = "\\" THEN
        IF i = Len(body) THEN [kind |-> "Unterminated string", val |-> acc, used |-> i - 1]
        ELSE IF body[i + 1] \in {"\"", "\\"}
        THEN Closing(body, i + 2, d, escapes, Append(acc, body[i + 1]))
        ELSE [kind |-> "Unescaped \"\\\" in a string", val |-> acc, used |-> i + 1]
    ELSE IF RunLength(body, i, d) >= 3
    THEN [kind |-> "closed",
          val |-> acc \o [k \in 1..Min(RunLength(body, i, d) - 3, 2) |-> d],
          used |-> i - 1 + Min(RunLength(body, i, d), 5)]
    ELSE Closing(body, i + 1, d, escapes, Append(acc, body[i]))

\* loads of a text of QuoteTexts ended as c says, c being Closing of the
\* text's body.
ClosedAs(c) ==
    IF c.kind # "closed"
    THEN pc = "raised" /\ err.msg[1] = c.kind /\ pos = 5 + c.used
    ELSE IF 5 + c.used = Len(src)
    THEN pc = "returned" /\ ValueOfA = StrVal(c.val)
    ELSE /\ pc = "raised"
         /\ pos = 5 + c.used
         /\ err.msg[1] = "Expected newline or end of document after a statement"

\* C23: a multi-line string ends with the first run of three delimiters or
\* more that no escape consumes; runs of one or two are content; of a closing
\* run of n delimiters min(n - 3, 2) are added to the value and min(n, 5) are
\* consumed, so that a sixth fails the statement.
C23_MultilineStringCloses ==
    (arg.text \in QuoteTexts /\ arg.mode = "str" /\ pc \in {"returned", "raised"})
        => ClosedAs(Closing(SubSeq(src, 6, Len(src)), 1, src[3], src[3] = "\"", <<>>))

\* a = ''''x'''' is the string 'x'.
C23_Witness ==
    /\ pc = "returned"
    /\ arg.text = <<"a", "=", "'", "'", "'", "'", "x", "'", "'", "'", "'">>
    /\ ValueOfA = StrVal(<<"'", "x", "'">>)

\* --------------------------------------------------------------------- C24
\* The first character of t from i on (counted from 1) that is not in chars,
\* Len(t) + 1 when there is none.
RECURSIVE FirstNotIn(_, _, _)
FirstNotIn(t, i, chars) ==
    IF i > Len(t) \/ t[i] \notin chars THEN i ELSE FirstNotIn(t, i + 1, chars)

\* What the claim makes of the text t of a multi-line basic string, its
\* closing quotes included, read from character i on with the value acc
\* before it: the value, or the message of the failure.
RECURSIVE Unfolded(_, _, _)
Unfolded(t, i, acc) ==
    IF i > Len(t) THEN [msg |-> "Unterminated string", val |-> acc]
    ELSE IF t[i] = "\\" THEN
        IF i = Len(t) THEN [msg |-> "Unterminated string", val |-> acc]
        ELSE IF t[i + 1] \in {" ", "\t", "\n"} THEN
            LET w == FirstNotIn(t, i + 1, {" ", "\t"})
            IN IF w > Len(t) THEN [msg |-> "Unterminated string", val |-> acc]
               ELSE IF t[w] # "\n" THEN [msg |-> "Unescaped \"\\\" in a string", val |-> acc]
               ELSE Unfolded(t, FirstNotIn(t, w, {" ", "\t", "\n"}), acc)
        ELSE IF t[i + 1] \in {"\\", "\""} THEN Unfolded(t, i + 2, Append(acc, t[i + 1]))
        ELSE [msg |-> "Unescaped \"\\\" in a string", val |-> acc]
    ELSE IF i + 2 = Len(t) /\ SubSeq(t, i, i + 2) = <<"\"", "\"", "\"">>
    THEN [msg |-> "", val |-> acc]
    ELSE Unfolded(t, i + 1, Append(acc, t[i]))

\* The text of a multi-line string after its opening quotes and the newline
\* that may follow them.
AfterOpening(s) == SubSeq(s, IF s[6] = "\n" THEN 7 ELSE 6, Len(s))

IsMultiline(s) == Len(s) >= 5 /\ SubSeq(s, 3, 5) = <<"\"", "\"", "\"">>

\* Character i of the body starts an escape: it is a backslash after an even
\* number of backslashes.
RECURSIVE StartsEscape(_, _)
StartsEscape(body, i) ==
    /\ body[i] = "\\"
    /\ (i = 1 \/ ~StartsEscape(body, i - 1))

\* C24: in a multi-line basic string a backslash before inline whitespace (or
\* none) and a newline adds nothing to the value, and the string goes on at
\* the first character after them that is no space, tab or newline; before
\* inline whitespace and another character it fails with Unescaped "\".  In
\* a single-line basic string a backslash before a space, tab or newline
\* fails.
C24_LineEndingBackslash ==
    (arg.text \in BackslashTexts /\ arg.mode = "str" /\ pc \in {"returned", "raised"}) =>
        IF IsMultiline(src)
        THEN LET u == Unfolded(AfterOpening(src), 1, <<>>)
             IN IF u.msg = "" THEN pc = "returned" /\ ValueOfA = StrVal(u.val)
                ELSE pc = "raised" /\ err.msg[1] = u.msg
        ELSE (\E i \in 1..(Len(src) - 4) :
                  /\ StartsEscape(SubSeq(src, 4, Len(src) - 1), i)
                  /\ src[4 + i] \in {" ", "\t", "\n"})
                 => pc = "raised"

\* a = """\ <newline> x""" is the string x.
C24_Witness ==
    /\ pc = "returned"
    /\ arg.text = <<"a", "=", "\"", "\"", "\"", "\\", "\n", " ", "x", "\"", "\"", "\"">>
    /\ ValueOfA = StrVal(<<"x">>)

\* --------------------------------------------------------------------- C25
DigitValue(c) == CHOOSE n \in 0..9 : ToString(n) = c

RECURSIVE Power10(_)
Power10(n) == IF n = 0 THEN 1 ELSE 10 * Power10(n - 1)

\* The microseconds of a fraction of the digits given: digit i counts
\* 10^(6 - i) microseconds, the digits after the sixth nothing.
RECURSIVE MicrosOfDigits(_, _)
MicrosOfDigits(digits, i) ==
    IF i > Len(digits) \/ i > 6 THEN 0
    ELSE DigitValue(digits[i]) * Power10(6 - i) + MicrosOfDigits(digits, i + 1)

\* The digits after the point of the text, none when it has no point.
FractionDigits(s) ==
    IF \E i \in 1..Len(s) : s[i] = "."
    THEN SubSeq(s, (CHOOSE i \in 1..Len(s) : s[i] = ".") + 1, Len(s))
    ELSE <<>>

\* The microsecond of a time or a date-time.
MicrosecondOf(value) == IF value.t = "time" THEN value.v[4] ELSE value.v[7]

\* C25: the microsecond of a time or date-time is made of the first six
\* digits of its fraction of a second, zeros standing for those that are not
\* written and later digits dropped: .5 is 500000, .999999999 is 999999, and
\* the microsecond is within 0..999999.
C25_FractionToMicroseconds ==
    (arg.text \in FractionTexts /\ arg.mode = "str" /\ pc \in {"returned", "raised"}) =>
        /\ pc = "returned"
        /\ ValueOfA.t \in {"time", "datetime"}
        /\ MicrosecondOf(ValueOfA) = MicrosOfDigits(FractionDigits(src), 1)
        /\ MicrosecondOf(ValueOfA) \in 0..999999
        /\ FractionDigits(src) = <<"5">> => MicrosecondOf(ValueOfA) = 500000
        /\ FractionDigits(src) = <<"9", "9", "9", "9", "9", "9", "9", "9", "9">>
               => MicrosecondOf(ValueOfA) = 999999

\* datetime = 1979-05-27T00:32:00.999999999, as in the test.
C25_Witness ==
    /\ pc = "returned"
    /\ arg.text = <<"a", "=", "1", "9", "7", "9", "-", "0", "5", "-", "2", "7", "T",
                    "0", "0", ":", "3", "2", ":", "0", "0",
                    ".", "9", "9", "9", "9", "9", "9", "9", "9", "9">>
    /\ ValueOfA = [t |-> "datetime", v |-> <<1979, 5, 27, 0, 32, 0, 999999>>, tz |-> NoTz]

\* --------------------------------------------------------------------- C26
\* What follows the seconds in a text of OffsetTexts.
OffsetOf(s) == SubSeq(s, 22, Len(s))

\* The tzinfo that the claim gives a date-time with what follows its seconds:
\* none, UTC for Z and z, and the minutes east of UTC for +hh:mm and -hh:mm.
TzOfOffset(offset) ==
    IF offset = <<>> THEN NoTz
    ELSE IF offset \in { <<"Z">>, <<"z">> } THEN Tz(0)
    ELSE (IF offset[1] = "+" THEN 1 ELSE -1)
             * (60 * (10 * DigitValue(offset[2]) + DigitValue(offset[3]))
                   + 10 * DigitValue(offset[5]) + DigitValue(offset[6]))

\* C26: a date-time with +hh:mm or -hh:mm has that offset, the sign taken
\* for the hours and the minutes; with a Z or a z at its end it is at UTC;
\* with neither it is a local date-time.
C26_OffsetSignAndZulu ==
    (arg.text \in OffsetTexts /\ arg.mode = "str" /\ pc \in {"returned", "raised"}) =>
        /\ pc = "returned"
        /\ ValueOfA.t = "datetime"
        /\ ValueOfA.tz = IF Len(OffsetOf(src)) = 6
                         THEN Tz(TzOfOffset(OffsetOf(src)))
                         ELSE TzOfOffset(OffsetOf(src))

\* --------------------------------------------------------------------- C27
\* The case that the text is of.
InlineCaseOf(text) == CHOOSE case \in InlineCases : InlineText(case) = text

\* The key of a pair as parse_key gives it.
KeyOf(pair) == [i \in 1..Len(pair.key) |-> <<pair.key[i]>>]

\* What the claim makes of pair i of an inline table, given the pairs
\* before it: the message of its failure, "" when it is taken.
PairFails(pairs, i) ==
    LET k == KeyOf(pairs[i])
        before == { pairs[j] : j \in 1..(i - 1) }
    IN IF \E p \in before : p.value.t \in {"dict", "list"} /\ IsPrefix(KeyOf(p), k)
       THEN "Can not mutate immutable namespace"
       ELSE IF \E p \in before : IsProperPrefix(KeyOf(p), k)
       THEN "Can not overwrite a value"
       ELSE IF \E p \in before : IsPrefix(k, KeyOf(p))
       THEN "Duplicate inline table key"
       ELSE ""

\* The first pair that fails, 0 when none does.
FirstFailing(pairs) ==
    IF \A i \in 1..Len(pairs) : PairFails(pairs, i) = "" THEN 0
    ELSE CHOOSE i \in 1..Len(pairs) :
             /\ PairFails(pairs, i) # ""
             /\ \A j \in 1..(i - 1) : PairFails(pairs, j) = ""

\* The table t of the document.
TableT(cont, case) == Lookup(cont, case.header \o << <<"t">> >>)

\* The paths of an inline table of the family.
InlinePaths ==
    { << <<"a">> >>, << <<"b">> >>, << <<"a">>, <<"b">> >>, << <<"a">>, <<"c">> >> }

\* The statement at the cursor is the inline table of the case; the step
\* reads it.
InlineTableRead(case) ==
    LET failing == FirstFailing(case.pairs)
    IN /\ header' = header
       /\ IF failing # 0
          THEN /\ pc' = "raised"
               /\ err'.msg[1] = PairFails(case.pairs, failing)
               /\ out' = out
               /\ flags' = flags
          ELSE /\ pc' = "returned"
               /\ TableT(out', case).t = "dict"
               /\ \A i \in 1..Len(case.pairs) :
                      Lookup(TableT(out', case).v, KeyOf(case.pairs[i])) = case.pairs[i].value
               /\ \A path \in InlinePaths :
                      (\A i \in 1..Len(case.pairs) :
                           /\ ~IsPrefix(path, KeyOf(case.pairs[i]))
                           /\ ~IsPrefix(KeyOf(case.pairs[i]), path))
                          => Lookup(TableT(out', case).v, path) = Missing
               /\ out' = IF case.header = <<>>
                         THEN Put(out, <<"t">>, TableT(out', case))
                         ELSE Put(out, <<"a">>,
                                  DictVal(Put(out[<<"a">>].v, <<"t">>, TableT(out', case))))
               /\ flags' = Set(SetForRelativeKey(flags, header, << <<"t">> >>, EXPLICIT_NEST),
                               header \o << <<"t">> >>, FROZEN, TRUE)

\* C27: an inline table keeps track of its keys by itself.  A dotted key may
\* add to a table that an earlier dotted key of the inline table made; a key
\* at or below a key that the inline table bound to an inline table or an
\* array fails, and so does a key that is bound already; the document's tree,
\* flags and header namespace are as before when the inline table fails, and
\* when it is read they change as for any value stored at its key.
C27_InlineTableKeysAreLocal ==
    [][(arg.text \in InlineTexts /\ arg.mode = "str" /\ pc = "parsing"
            /\ Slice(src, pos, pos + 3) = <<"t", "=", "{">>)
           => InlineTableRead(InlineCaseOf(arg.text))]_vars

\* t = {a.b = 1, a.c = 1} is the table {a: {b: 1, c: 1}}.
C27_Witness ==
    /\ pc = "returned"
    /\ arg.text = <<"t", "=", "{", "a", ".", "b", "=", "1", ",", "a", ".", "c", "=", "1", "}">>
    /\ Lookup(out, << <<"t">> >>)
           = DictVal(Put(EmptyCont, <<"a">>,
                         DictVal(Put(Put(EmptyCont, <<"b">>, IntVal(1)), <<"c">>, IntVal(1)))))

\* --------------------------------------------------------------------- C28
\* The path that the rule of a statement hands to get_or_create_nest.
DescentPath(stmt) ==
    IF stmt.rule = "create_dict" THEN stmt.key
    ELSE IF stmt.rule = "create_list" THEN Front(stmt.key)
    ELSE header \o Front(stmt.key)

\* A non-empty array whose elements are all tables.
IsArrayOfTables(value) ==
    /\ value.t = "list"
    /\ Len(value.v) > 0
    /\ \A i \in 1..Len(value.v) : value.v[i].t = "dict"

\* A header [[path]] was read.
HeaderRead(path) == \E i \in 1..Len(doc) : doc[i] = ListStmt(path)

\* Every array that the walk along path meets in cont, the dict at the path
\* done, is a non-empty array of tables made by [[...]] headers.
RECURSIVE SafeDescent(_, _, _)
SafeDescent(cont, path, done) ==
    IF path = <<>> \/ path[1] \notin DOMAIN cont THEN TRUE
    ELSE LET c == cont[path[1]]
         IN IF c.t = "list"
            THEN /\ IsArrayOfTables(c)
                 /\ HeaderRead(Append(done, path[1]))
                 /\ SafeDescent(c.v[Len(c.v)].v, Tail(path), Append(done, path[1]))
            ELSE IF c.t = "dict" THEN SafeDescent(c.v, Tail(path), Append(done, path[1]))
            ELSE TRUE

\* The step read a statement that the checks of the flags let through.
PassedFlagChecks ==
    /\ pc = "parsing"
    /\ Len(doc') = Len(doc) + 1
    /\ ~(pc' = "raised" /\ err'.type = "TOMLDecodeError"
             /\ err'.msg[1] \in {"Can not declare", "Can not mutate immutable namespace"})

\* The keys of the statement family, and the paths they make under a header.
StatementKeys == { << <<"a">> >>, << <<"b">> >>, << <<"a">>, <<"b">> >> }
StatementPaths == StatementKeys \cup { h \o k : h \in StatementKeys, k \in StatementKeys }

\* C28: a path that a header or key/value hands to get_or_create_nest meets
\* no array but non-empty arrays of tables that [[...]] headers made, and
\* [[...]] appends to no other, so that no walk takes the last element of an
\* empty array or goes into an element that is no table; for an inline array
\* that a path reaches is FROZEN.
C28_DescentThroughArraysOfTables ==
    /\ [](pc = "parsing" =>
              \A path \in StatementPaths :
                  (Lookup(out, path).t = "list" /\ ~IsArrayOfTables(Lookup(out, path)))
                      => Is(flags, path, FROZEN))
    /\ [][PassedFlagChecks =>
              /\ SafeDescent(out, DescentPath(Consumed), <<>>)
              /\ (Consumed.rule = "create_list" /\ Lookup(out, Consumed.key).t = "list")
                     => (IsArrayOfTables(Lookup(out, Consumed.key)) /\ HeaderRead(Consumed.key))
              /\ err'.type \in {"", "TOMLDecodeError"}]_vars

\* [[a]] / [a.b]: the table a.b of the last element of a.
C28_Witness ==
    /\ pc = "returned"
    /\ arg.text = <<"[", "[", "a", "]", "]", "\n", "[", "a", ".", "b", "]">>
    /\ out = Put(EmptyCont, <<"a">>,
                 ListVal(<<DictVal(Put(EmptyCont, <<"b">>, DictVal(EmptyCont)))>>))

\* --------------------------------------------------------------------- C29
\* Between the tables old and new no element before the last one of an array
\* of tables differs: under every key of old that holds a table, the same of
\* the tables below it; under every key that holds an array of tables, new
\* holds an array with at least its elements, those before the last one of
\* old equal, and the last one of old equal when new has a later element,
\* the same of its tables when it is still the last.
RECURSIVE EarlierElementsKept(_, _)
EarlierElementsKept(old, new) ==
    \A k \in DOMAIN old :
        LET o == old[k]
        IN IF o.t = "dict" THEN
               /\ k \in DOMAIN new
               /\ new[k].t = "dict"
               /\ EarlierElementsKept(o.v, new[k].v)
           ELSE IF IsArrayOfTables(o) THEN
               /\ k \in DOMAIN new
               /\ new[k].t = "list"
               /\ Len(new[k].v) >= Len(o.v)
               /\ \A i \in 1..(Len(o.v) - 1) : new[k].v[i] = o.v[i]
               /\ IF Len(new[k].v) > Len(o.v)
                  THEN new[k].v[Len(o.v)] = o.v[Len(o.v)]
                  ELSE /\ new[k].v[Len(o.v)].t = "dict"
                       /\ EarlierElementsKept(o.v[Len(o.v)].v, new[k].v[Len(o.v)].v)
           ELSE TRUE

\* The arrays of tables that a path through the tree reaches, each with the
\* number of its elements: the path goes on in the last element.
RECURSIVE ArraysOn(_, _, _)   \* (cont, path, done)
ArraysOn(cont, path, done) ==
    IF path = <<>> \/ Head(path) \notin DOMAIN cont THEN {}
    ELSE LET v == cont[Head(path)]
             here == Append(done, Head(path))
         IN IF v.t = "dict" THEN ArraysOn(v.v, Tail(path), here)
            ELSE IF IsArrayOfTables(v)
            THEN {<<here, Len(v.v)>>} \cup ArraysOn(v.v[Len(v.v)].v, Tail(path), here)
            ELSE {}

\* The path that the statement read in this step names: a header's key, the
\* header in force followed by the key of a key/value pair.
NamedPath(stmt) == IF IsHeader(stmt) THEN stmt.key ELSE header \o stmt.key

\* C29: an element of an array of tables that is not the last one is never
\* modified: every step of a parse leaves the elements before the last one
\* of every array of tables as they were, an element that stops being the
\* last one included, and a statement whose path goes through an array of
\* tables changes the tree in the last element of it only. So the elements
\* 1..k-1 of an array that [[p]] gave a k-th element stay as they were for
\* the rest of the parse.
C29_EarlierElementsNeverChange ==
    [][/\ EarlierElementsKept(out, out')
       /\ (Len(doc') = Len(doc) + 1) =>
              \A a \in ArraysOn(out, NamedPath(Consumed), <<>>) :
                  \A i \in 1..(a[2] - 1) :
                      /\ Lookup(out', a[1]).t = "list"
                      /\ Lookup(out', a[1]).v[i] = Lookup(out, a[1]).v[i]]_vars

\* Two elements were opened in the array a and a key was bound after that:
\* the first element is the empty table it was, the second holds the key.
C29_Witness ==
    /\ pc = "returned"
    /\ doc = << ListStmt(<<"a">>), ListStmt(<<"a">>), KVStmt(<<"b">>, IntVal(1)) >>
    /\ out = Put(EmptyCont, "a", ListVal(<< DictVal(EmptyCont),
                                            DictVal(Put(EmptyCont, "b", IntVal(1))) >>))

\* --------------------------------------------------------------------- C30
\* Flags on its own: a fresh trie, one call of set_for_relative_key, and
\* is_ asked of it. Here arg is the call of set_for_relative_key, flags the
\* trie, header the key that is_ was asked and out what it returned.
FlagParts == {"a", "b"}
MaxHeadLen == 2
MaxRelLen == 2

\* tests/test_flags.py: head ("a", "b"), rel ("c", "d"), EXPLICIT_NEST, and
\* the five keys it asks.
TestHead == <<"a", "b">>
TestRel == <<"c", "d">>
TestAsked ==
    { <<"a">>, <<"a", "b">>, <<"a", "b", "c">>, <<"a", "b", "c", "d">>,
      <<"a", "b", "c", "d", "e">> }

FlagsCall(head_key, rel_key, flag) ==
    [fn |-> "set_for_relative_key", mode |-> "", text |-> <<>>,
     head_key |-> head_key, rel_key |-> rel_key, flag |-> flag]

FlagsCalls ==
    { FlagsCall(h, r, f) : h \in TextsOver(FlagParts, MaxHeadLen),
                           r \in TextsOver(FlagParts, MaxRelLen),
                           f \in {FROZEN, EXPLICIT_NEST} }
        \cup { FlagsCall(TestHead, TestRel, EXPLICIT_NEST) }

\* The keys asked: every key that is at most one part longer than the
\* longest head_key + rel_key, and those of the test.
AskedKeys == TextsOver(FlagParts, MaxHeadLen + MaxRelLen + 1) \cup TestAsked

FlagsInit ==
    /\ arg \in FlagsCalls
    /\ flags = EmptyCont
    /\ pc = "fresh"
    /\ header = <<>>
    /\ out = FALSE
    /\ doc = <<>>
    /\ err = NoErr
    /\ src = <<>>
    /\ pos = 0

\* flags.set_for_relative_key(head_key, rel_key, flag)
FlagsSetForRelativeKey ==
    /\ pc = "fresh"
    /\ flags' = SetForRelativeKey(flags, arg.head_key, arg.rel_key, arg.flag)
    /\ pc' = "set"
    /\ UNCHANGED <<out, header, doc, err, arg, src, pos>>

\* flags.is_(key, flag), of the flag that was set: one key is asked of each
\* trie, is_ changes nothing in it.
FlagsIs(key) ==
    /\ pc = "set"
    /\ header' = key
    /\ out' = Is(flags, key, arg.flag)
    /\ pc' = "asked"
    /\ UNCHANGED <<flags, doc, err, arg, src, pos>>

FlagsNext ==
    \/ FlagsSetForRelativeKey
    \/ \E key \in AskedKeys : FlagsIs(key)

FlagsSpec == FlagsInit /\ [][FlagsNext]_vars

\* The paths head_key + rel_key[0..i], i = 1..len(rel_key).
RelativePaths(head_key, rel_key) ==
    { head_key \o SubSeq(rel_key, 1, i) : i \in 1..Len(rel_key) }

\* C30: on a fresh trie, after set_for_relative_key(head, rel, flag), is_
\* answers true for the paths head + rel[0..i] with i = 1..len(rel) and for
\* no other key: not for head, not for a prefix of head, not for an extension
\* of head + rel.
C30_RelativeKeyMarksItsPaths ==
    pc = "asked" => (out <=> header \in RelativePaths(arg.head_key, arg.rel_key))

\* The test's call, asked of ("a", "b", "c"): true.
C30_Witness ==
    /\ pc = "asked"
    /\ arg = FlagsCall(TestHead, TestRel, EXPLICIT_NEST)
    /\ header = <<"a", "b", "c">>
    /\ out = TRUE

====
